---- MODULE Spec2Model ----
(***************************************************************************)
(* A model of core::table::DistributedTable (distributed_table.h): the     *)
(* per-process object (owned_table_, local_n_entries_, global_table_,      *)
(* table_outbox_group_comm_size_), its Init and IndexData protocol run by  *)
(* the P processes of one communicator, and its TreeIterator.              *)
(*                                                                         *)
(* Ranks and leaf indices are 0-based as in the source; TLA+ sequences are *)
(* 1-based, so position k of a C++ array is element k + 1 of a sequence.   *)
(* A point is a row [pt, id]: pt is its (one-dimensional) coordinate and   *)
(* id its original identifier <<rank, index>> held in old_from_new.        *)
(***************************************************************************)
EXTENDS Integers, Sequences, FiniteSets, TLC

\* Largest communicator size explored.
MaxP == 3
\* Largest number of points loaded by all processes together.
MaxPoints == 3
\* Largest begin and count a TreeIterator is built with.
MaxBegin == 2
MaxCount == 3
\* How far past end_ - 1 a client drives an iterator with Next().
MaxOverrun == 2

VARIABLES
  comm_size,                      \* table_outbox_group_comm.size()
  global_m_file_,                 \* core::table::global_m_file_ is not NULL
  heap,                           \* per process: what was allocated and released
  rendezvous,                     \* TRUE: a send completes only when received
  pc,                             \* position of each process
  owned_table_,                   \* per process: the shard
  local_n_entries_,               \* per process: the entry-count directory
  global_table_,                  \* per process: the global summary
  table_outbox_group_comm_size_,  \* per process: group size recorded by Init
  sampled_indices,                \* IndexData local
  sampled_table,                  \* IndexData local (filled on rank 0)
  bcast_leaves,                   \* payload of the broadcast of line 561
  top_leaf_nodes,                 \* IndexData local: candidate leaf centroids
  num_points_assigned_to_leaf_nodes,
  leaf_node_assignment_index,
  leaves_taken,                   \* the auction solver: leaves already handed out
  point_assignments,              \* ReadjustCentroids_ local
  total_num_points_owned,         \* ReadjustCentroids_ local
  new_local_table,                \* ReadjustCentroids_ local
  offset,                         \* `offset` of line 529; in ReadjustCentroids_ the
                                  \* rows new_table_ptr has advanced past
  loop_i,                         \* loop counter of the current receive loop
  msgs,                           \* point-to-point messages in flight
  p2p_ops,                        \* history: send/isend/recv calls issued
  shard0,                         \* history: the shard each process loaded
  obs,                            \* the last accessor call and what it returned
  begin_, end_, current_index_,   \* a TreeIterator
  it_phase, it_visited, it_first  \* the iterator's client and what it has seen

objVars == <<owned_table_, local_n_entries_, global_table_,
             table_outbox_group_comm_size_>>
sampleVars == <<sampled_indices, sampled_table>>
leafVars == <<bcast_leaves, top_leaf_nodes, num_points_assigned_to_leaf_nodes,
              leaf_node_assignment_index, leaves_taken>>
moveVars == <<point_assignments, total_num_points_owned, new_local_table,
              offset, loop_i>>
netVars == <<msgs, p2p_ops>>
cursorVars == <<begin_, end_, current_index_, it_phase, it_visited, it_first>>
protocolVars == <<comm_size, global_m_file_, heap, rendezvous, pc, objVars, sampleVars, leafVars,
                  moveVars, netVars, shard0>>
tableVars == <<comm_size, global_m_file_, heap, rendezvous, pc, objVars, sampleVars, leafVars, moveVars,
               netVars, shard0, obs>>
vars == <<comm_size, global_m_file_, heap, rendezvous, pc, objVars, sampleVars, leafVars, moveVars,
          netVars, shard0, obs, cursorVars>>

----------------------------------------------------------------------------
(* Generic helpers *)

Min(a, b) == IF a < b THEN a ELSE b
Max(a, b) == IF a > b THEN a ELSE b

RECURSIVE SeqSum(_)
SeqSum(s) == IF s = <<>> THEN 0 ELSE Head(s) + SeqSum(Tail(s))

RECURSIVE SumOver(_, _)
SumOver(f, S) ==
  IF S = {} THEN 0
  ELSE LET x == CHOOSE y \in S : TRUE IN f[x] + SumOver(f, S \ {x})

Procs == 0 .. comm_size - 1

\* The value of a pointer that owns nothing.
NULL == [live |-> FALSE, rows |-> <<>>, tree |-> FALSE]
NoDirectory == <<>>
NoId == <<-1, -1>>
\* No accessor has been called since the last step of the protocol.
\* `read` lists the array positions the call read, and `defined` is FALSE
\* when the call went through a null pointer or outside an array.
NoObs == [call |-> "none", proc |-> 0, rank_in |-> 0, ret |-> 0, read |-> <<>>,
          printed |-> FALSE, point |-> 0, defined |-> TRUE]

\* A step of Init or IndexData: no accessor is called and no iterator is
\* used meanwhile.
NoClientCall == obs' = NoObs /\ UNCHANGED cursorVars

Table(rows, indexed) == [live |-> TRUE, rows |-> rows, tree |-> indexed]

----------------------------------------------------------------------------
(* Allocation.  heap[p].objects lists what process p has allocated, each   *)
(* with the pointer it was first assigned to, the facility it came from    *)
(* and the facilities it was released through; the other fields are the    *)
(* pointers, 0 for NULL.                                                   *)

NoHeap == [objects |-> <<>>, owned_table_ |-> 0, local_n_entries_ |-> 0,
           global_table_ |-> 0, new_local_table |-> 0]

\* Lines 203-204, 460-462, 469-472, 600-602: Construct / ConstructArray of
\* the arena when global_m_file_ is set, new otherwise.
AllocFacility == IF global_m_file_ THEN "arena" ELSE "heap"

\* The fault of releasing with delete whatever the flag, which C18 must
\* detect.
ReleaseFacility_Delete == "heap"

\* Lines 291-296, 395-400, 406-411, 417-422: DestroyPtr of the arena when
\* global_m_file_ is set, delete otherwise.
ReleaseFacility == IF global_m_file_ THEN "arena" ELSE "heap"

\* ptr = Construct<T>() or new T.
Allocated(h, ptr) ==
  [h EXCEPT !.objects = Append(@, [what |-> ptr, by |-> AllocFacility,
                                   released |-> <<>>]),
            ![ptr] = Len(h.objects) + 1]

\* DestroyPtr(ptr.get()) or delete ptr.get(); the pointer keeps its value.
Released(h, ptr) ==
  [h EXCEPT !.objects[h[ptr]].released = Append(@, ReleaseFacility)]

\* Init, lines 460-472: the shard and the directory.
HeapInit(h) == Allocated(Allocated(h, "owned_table_"), "local_n_entries_")

\* ReadjustCentroids_, lines 202-204: the new local table.
HeapNewLocalTable(h) == Allocated(h, "new_local_table")

\* ReadjustCentroids_, lines 289-297, then IndexData, lines 599-602: the old
\* shard is released, owned_table_ takes the new one, and the global table
\* is allocated.
HeapSwap(h) ==
  Allocated([Released(h, "owned_table_") EXCEPT !.owned_table_ = h.new_local_table,
                                                !.new_local_table = 0],
            "global_table_")

\* ~DistributedTable, lines 394-424: each of the three pointers that is not
\* NULL is released and set to NULL.
RECURSIVE HeapDestroy(_, _)
HeapDestroy(h, ptrs) ==
  IF ptrs = <<>> THEN h
  ELSE HeapDestroy(IF h[Head(ptrs)] # 0
                   THEN [Released(h, Head(ptrs)) EXCEPT ![Head(ptrs)] = 0]
                   ELSE h,
                   Tail(ptrs))

----------------------------------------------------------------------------
(* Positions.  A process is AT a position: the named step is the next one  *)
(* it executes.  Collectives use the order of the positions: a process may *)
(* leave a collective once every process has reached it.                   *)

PcOrder == << "destroyed", "ctor", "Init_all_gather", "inited",
              "gather", "send", "send_block", "recv", "barrier544",
              "build_top", "broadcast", "replenish",
              "auction", "kmeans", "kmeans_wait",
              "isend", "recv_left", "self_copy",
              "recv_right", "wait_all", "barrier287",
              "all_gather_centroid", "all_gather_counts", "done" >>

PcIdx(s) == CHOOSE i \in 1 .. Len(PcOrder) : PcOrder[i] = s

\* The fault of a collective that lets a process through as soon as any
\* process has reached it, which C12 must detect.
Arrived_Any(s) == \E q \in Procs : PcIdx(pc[q]) >= PcIdx(s)

\* Every process of the group has reached position s (or is past it).
Arrived(s) == \A q \in Procs : PcIdx(pc[q]) >= PcIdx(s)
\* Every process of the group is past position s.
Passed(s) == \A q \in Procs : PcIdx(pc[q]) > PcIdx(s)

----------------------------------------------------------------------------
(* External collaborators, modelled at their interface *)

\* Loader: the shard process `rank` reads from its file, n points.
Load(rank, n) ==
  [j \in 1 .. n |-> [pt |-> rank * MaxPoints + j, id |-> <<rank, j - 1>>]]

\* core::math::RandInt(lo, hi): an integer in [lo, hi).
RandInt(lo, hi) == lo .. hi - 1

Swap(a, i, j) == [a EXCEPT ![i + 1] = a[j + 1], ![j + 1] = a[i + 1]]

RECURSIVE InsertRow(_, _)
InsertRow(r, s) ==
  IF s = <<>> THEN <<r>>
  ELSE IF r.pt <= Head(s).pt THEN <<r>> \o s
       ELSE <<Head(s)>> \o InsertRow(r, Tail(s))

RECURSIVE SortRows(_)
\* Table::IndexData: the tree build reorders the rows (here: by coordinate),
\* each row keeping its old_from_new entry.
SortRows(s) == IF s = <<>> THEN <<>> ELSE InsertRow(Head(s), SortRows(Tail(s)))

\* bound().center() of the root of a table's tree: the mean of its points.
Centroid(rows) ==
  IF rows = <<>> THEN 0
  ELSE SeqSum([k \in 1 .. Len(rows) |-> rows[k].pt]) \div Len(rows)

----------------------------------------------------------------------------
(* SelectSubset_ : lines 350-368 *)

\* The fault of taking floor(p * n) without the lower bound of one element,
\* which C21 must detect.
NumElements_Floor(prob, n) == (prob[1] * n) \div prob[2]

NumElements(prob, n) == Max((prob[1] * n) \div prob[2], 1)

RECURSIVE Shuffle(_, _, _)
\* The index arrays the loop of lines 360-363 can leave, from iteration i on.
Shuffle(indices, i, num_elements) ==
  IF i >= num_elements THEN {indices}
  ELSE UNION { Shuffle(Swap(indices, i, random_index), i + 1, num_elements) :
                 random_index \in RandInt(i, Len(indices)) }

SelectSubset_(prob, n) ==
  { SubSeq(indices, 1, NumElements(prob, n)) :
      indices \in Shuffle([k \in 1 .. n |-> k - 1], 0, NumElements(prob, n)) }

\* CopyPointsIntoTemporaryBuffer_ : lines 370-379 (coordinates only).
CopyPointsIntoTemporaryBuffer_(table, indices) ==
  [k \in 1 .. Len(indices) |-> [pt |-> table.rows[indices[k] + 1].pt, id |-> NoId]]

\* The sample probabilities IndexData is called with, as <<num, den>>.
Probabilities == { <<1, 2>>, <<1, 1>> }

----------------------------------------------------------------------------
(* Point-to-point messages *)

Msg(src, dst, tag, rows) == [src |-> src, dst |-> dst, tag |-> tag, rows |-> rows]

\* boost::mpi::any_tag (line 533).
any_tag == -1

\* The messages a recv(src, tag) posted by process dst matches.
Matching(dst, src, tag) ==
  { m \in msgs : m.src = src /\ m.dst = dst /\ (tag = any_tag \/ m.tag = tag) }

\* The fault of not waiting for the sends, which C15 must detect.
SendsComplete_NoWait(p) == TRUE

\* A send has completed: always under the eager protocol, and under the
\* rendezvous protocol once the message has been received.
SendsComplete(p) == rendezvous => \A m \in msgs : m.src # p

----------------------------------------------------------------------------
(* Initial state: P constructed DistributedTable objects, lines 383-388 *)

Constructed ==
  /\ comm_size \in 1 .. MaxP
  /\ global_m_file_ \in BOOLEAN
  /\ heap = [p \in Procs |-> NoHeap]
  /\ pc = [p \in Procs |-> "ctor"]
  /\ owned_table_ = [p \in Procs |-> NULL]
  /\ local_n_entries_ = [p \in Procs |-> NoDirectory]
  /\ global_table_ = [p \in Procs |-> NULL]
  /\ table_outbox_group_comm_size_ = [p \in Procs |-> -1]
  /\ sampled_indices = [p \in Procs |-> <<>>]
  /\ sampled_table = [p \in Procs |-> <<>>]
  /\ bcast_leaves = <<>>
  /\ top_leaf_nodes = [p \in Procs |-> <<>>]
  /\ num_points_assigned_to_leaf_nodes = [p \in Procs |-> <<>>]
  /\ leaf_node_assignment_index = [p \in Procs |-> -1]
  /\ leaves_taken = {}
  /\ point_assignments = [p \in Procs |-> <<>>]
  /\ total_num_points_owned = [p \in Procs |-> 0]
  /\ new_local_table = [p \in Procs |-> <<>>]
  /\ offset = [p \in Procs |-> 0]
  /\ loop_i = [p \in Procs |-> 0]
  /\ msgs = {}
  /\ p2p_ops = [p \in Procs |-> 0]
  /\ shard0 = [p \in Procs |-> <<>>]
  /\ obs = NoObs

\* TreeIterator() : lines 56-61.
DefaultIterator ==
  /\ begin_ = -1
  /\ end_ = -1
  /\ current_index_ = -1
  /\ it_phase = "unused"
  /\ it_visited = <<>>
  /\ it_first = <<>>

\* Under the eager protocol a send may complete at any time, also as late
\* as its receive: every state of a rendezvous run is a state of an eager one.
Init == Constructed /\ DefaultIterator /\ rendezvous = FALSE

\* Both protocols, for the properties that depend on when a send completes.
InitAnyProtocol == Constructed /\ DefaultIterator /\ rendezvous \in BOOLEAN

----------------------------------------------------------------------------
(* DistributedTable::Init : lines 453-482 *)

\* Points already loaded, and processes other than p still to load.
Loaded == SumOver([q \in Procs |-> Len(shard0[q])], Procs)
Unloaded(p) == Cardinality({ q \in Procs \ {p} : pc[q] = "ctor" })

\* Lines 460-472: load the shard, record the group size, allocate the
\* directory (its entries are not yet written: -1 stands for that).
InitLoad(p) ==
  /\ pc[p] = "ctor"
  /\ \E n \in 1 .. MaxPoints - Loaded - Unloaded(p) :
       /\ owned_table_' = [owned_table_ EXCEPT ![p] = Table(Load(p, n), FALSE)]
       /\ shard0' = [shard0 EXCEPT ![p] = Load(p, n)]
  /\ table_outbox_group_comm_size_' =
       [table_outbox_group_comm_size_ EXCEPT ![p] = comm_size]
  /\ local_n_entries_' = [local_n_entries_ EXCEPT ![p] = [r \in 1 .. comm_size |-> -1]]
  /\ heap' = [heap EXCEPT ![p] = HeapInit(@)]
  /\ pc' = [pc EXCEPT ![p] = "Init_all_gather"]
  /\ NoClientCall
  /\ UNCHANGED <<comm_size, global_m_file_, rendezvous, global_table_, sampleVars, leafVars,
                 moveVars, netVars>>

\* The fault of contributing the own directory entry instead of the size
\* of the shard, which C13 must detect.
GatheredEntries_Cached == [r \in 1 .. comm_size |-> local_n_entries_[r - 1][r]]

\* What all_gather of owned_table_->n_entries() delivers.
GatheredEntries == [r \in 1 .. comm_size |-> Len(owned_table_[r - 1].rows)]

\* Lines 473-475: all_gather of the shard sizes into the directory.
InitAllGather(p) ==
  /\ pc[p] = "Init_all_gather"
  /\ Arrived("Init_all_gather")
  /\ local_n_entries_' = [local_n_entries_ EXCEPT ![p] = GatheredEntries]
  /\ pc' = [pc EXCEPT ![p] = "inited"]
  /\ NoClientCall
  /\ UNCHANGED <<comm_size, global_m_file_, heap, rendezvous, owned_table_, global_table_,
                 table_outbox_group_comm_size_, sampleVars, leafVars,
                 moveVars, netVars, shard0>>

----------------------------------------------------------------------------
(* DistributedTable::IndexData, phases 1 and 2 : lines 499-548 *)

\* Lines 503-514: SelectSubset_, then the gather of the sample sizes, to
\* which a process other than the root only contributes.
SelectAndGather(p) ==
  /\ pc[p] = "inited"
  /\ \E prob \in Probabilities :
       \E s \in SelectSubset_(prob, Len(owned_table_[p].rows)) :
         sampled_indices' = [sampled_indices EXCEPT ![p] = s]
  /\ pc' = [pc EXCEPT ![p] = IF p = 0 THEN "gather" ELSE "send"]
  /\ NoClientCall
  /\ UNCHANGED <<comm_size, global_m_file_, heap, rendezvous, objVars, sampled_table, leafVars,
                 moveVars, netVars, shard0>>

\* The fault of sizing every block by the root's own count, which C22 must
\* detect.
Counts_Root == [r \in 1 .. comm_size |-> Len(sampled_indices[0])]

\* counts[] as gathered on rank 0.
Counts == [r \in 1 .. comm_size |-> Len(sampled_indices[r - 1])]

\* Lines 513-529 on rank 0: the gather completes, the sampled table is
\* allocated for total_num_samples points and the root's own sample copied
\* to its front.  Slots not yet written hold a row of coordinate 0.
GatherRoot(p) ==
  /\ pc[p] = "gather" /\ p = 0
  /\ Passed("inited")
  /\ LET total_num_samples == SeqSum(Counts)
         tmp_buffer == CopyPointsIntoTemporaryBuffer_(owned_table_[p], sampled_indices[p])
     IN sampled_table' = [sampled_table EXCEPT ![p] =
          [k \in 1 .. total_num_samples |->
             IF k <= Len(tmp_buffer) THEN tmp_buffer[k] ELSE [pt |-> 0, id |-> NoId]]]
  /\ offset' = [offset EXCEPT ![p] = Len(sampled_indices[p])]
  /\ loop_i' = [loop_i EXCEPT ![p] = 1]
  /\ pc' = [pc EXCEPT ![p] = IF comm_size > 1 THEN "recv" ELSE "barrier544"]
  /\ NoClientCall
  /\ UNCHANGED <<comm_size, global_m_file_, heap, rendezvous, objVars, sampled_indices, leafVars,
                 point_assignments, total_num_points_owned, new_local_table,
                 netVars, shard0>>

\* The fault of writing every fragment at the start of the buffer, which
\* C19 must detect.
WriteAt_Front(dst, at, src) ==
  [k \in 1 .. Len(dst) |-> IF k <= Len(src) THEN src[k] ELSE dst[k]]

\* Overwrite dst from C++ position `at` on with the rows of src.
WriteAt(dst, at, src) ==
  [k \in 1 .. Len(dst) |->
     IF k > at /\ k <= at + Len(src) THEN src[k - at] ELSE dst[k]]

\* The fault of leaving the receive loop before the last rank's sample,
\* which C25 must detect.
SampleSources_Short == 1 .. comm_size - 2

\* Line 529: the ranks the root receives a sample from.
SampleSources == 1 .. comm_size - 1

\* Lines 530-536 on rank 0: recv(i, any_tag, ptr + offset, counts[i]).
RecvSample(p) ==
  /\ pc[p] = "recv" /\ p = 0
  /\ \E m \in Matching(p, loop_i[p], any_tag) :
       /\ sampled_table' = [sampled_table EXCEPT ![p] =
            WriteAt(sampled_table[p], offset[p], m.rows)]
       /\ msgs' = msgs \ {m}
  /\ offset' = [offset EXCEPT ![p] = @ + Counts[loop_i[p] + 1]]
  /\ loop_i' = [loop_i EXCEPT ![p] = @ + 1]
  /\ p2p_ops' = [p2p_ops EXCEPT ![p] = @ + 1]
  /\ pc' = [pc EXCEPT ![p] =
       IF loop_i[p] + 1 \in SampleSources THEN "recv" ELSE "barrier544"]
  /\ NoClientCall
  /\ UNCHANGED <<comm_size, global_m_file_, heap, rendezvous, objVars, sampled_indices, leafVars,
                 point_assignments, total_num_points_owned, new_local_table,
                 shard0>>

\* Lines 538-542 on the other ranks: send(0, rank, tmp_buffer, ...) is issued.
SendSample(p) ==
  /\ pc[p] = "send" /\ p # 0
  /\ msgs' = msgs \cup
       { Msg(p, 0, p, CopyPointsIntoTemporaryBuffer_(owned_table_[p], sampled_indices[p])) }
  /\ p2p_ops' = [p2p_ops EXCEPT ![p] = @ + 1]
  /\ pc' = [pc EXCEPT ![p] = "send_block"]
  /\ NoClientCall
  /\ UNCHANGED <<comm_size, global_m_file_, heap, rendezvous, objVars, sampleVars, leafVars,
                 moveVars, shard0>>

\* The blocking send returns.
SendSampleReturn(p) ==
  /\ pc[p] = "send_block"
  /\ SendsComplete(p)
  /\ pc' = [pc EXCEPT ![p] = "barrier544"]
  /\ NoClientCall
  /\ UNCHANGED <<comm_size, global_m_file_, heap, rendezvous, objVars, sampleVars, leafVars,
                 moveVars, netVars, shard0>>

\* Lines 544-548: the barrier, after which tmp_buffer and counts are freed
\* (sampled_indices is not read again either).
Barrier544(p) ==
  /\ pc[p] = "barrier544"
  /\ Arrived("barrier544")
  /\ sampled_indices' = [sampled_indices EXCEPT ![p] = <<>>]
  /\ offset' = [offset EXCEPT ![p] = 0]
  /\ loop_i' = [loop_i EXCEPT ![p] = 0]
  /\ pc' = [pc EXCEPT ![p] = IF p = 0 THEN "build_top" ELSE "broadcast"]
  /\ NoClientCall
  /\ UNCHANGED <<comm_size, global_m_file_, heap, rendezvous, objVars, sampled_table, leafVars,
                 point_assignments, total_num_points_owned, new_local_table,
                 netVars, shard0>>

----------------------------------------------------------------------------
(* IndexData, phase 3 : lines 550-566, and ReplenishNodes_ : lines 152-180 *)

\* Table::IndexData(metric, 1, P) and get_leaf_nodes on the sampled table:
\* the sorted sample is cut into num_leaves contiguous leaves, and each leaf
\* is returned as its centroid.
TopLeaves(rows, num_leaves) ==
  LET sorted == SortRows(rows)
      m == Len(sorted)
  IN [j \in 1 .. num_leaves |->
        Centroid(SubSeq(sorted, ((j - 1) * m) \div num_leaves + 1, (j * m) \div num_leaves))]

\* Lines 553-561 on rank 0: build the top tree and broadcast its leaves (the
\* points of the sampled table are not read again).
BuildTopAndBroadcast(p) ==
  /\ pc[p] = "build_top" /\ p = 0
  /\ \E num_leaves \in 1 .. Min(comm_size, Len(sampled_table[p])) :
       /\ top_leaf_nodes' = [top_leaf_nodes EXCEPT ![p] = TopLeaves(sampled_table[p], num_leaves)]
       /\ bcast_leaves' = TopLeaves(sampled_table[p], num_leaves)
  /\ sampled_table' = [sampled_table EXCEPT ![p] = <<>>]
  /\ pc' = [pc EXCEPT ![p] = "replenish"]
  /\ NoClientCall
  /\ UNCHANGED <<comm_size, global_m_file_, heap, rendezvous, objVars, sampled_indices,
                 num_points_assigned_to_leaf_nodes, leaf_node_assignment_index,
                 leaves_taken, moveVars, netVars, shard0>>

\* Line 561 on the other ranks: the broadcast delivers the root's list.
BroadcastRecv(p) ==
  /\ pc[p] = "broadcast" /\ p # 0
  /\ PcIdx(pc[0]) > PcIdx("build_top")
  /\ top_leaf_nodes' = [top_leaf_nodes EXCEPT ![p] = bcast_leaves]
  /\ pc' = [pc EXCEPT ![p] = "replenish"]
  /\ NoClientCall
  /\ UNCHANGED <<comm_size, global_m_file_, heap, rendezvous, objVars, sampleVars, bcast_leaves,
                 num_points_assigned_to_leaf_nodes, leaf_node_assignment_index,
                 leaves_taken, moveVars, netVars, shard0>>

\* The fault of padding one leaf short, which C6 must detect.
NumAdditional_OneShort(group_size, num_nodes) == group_size - num_nodes - 1

\* Lines 158-159.
NumAdditional(group_size, num_nodes) == group_size - num_nodes

\* Line 160: std::max(1, RandInt(size)).
NumSamples(num_nodes) == { Max(1, r) : r \in RandInt(0, num_nodes) }

\* Lines 165-175: the average of num_samples centers drawn from the list.
AveragedCenters(nodes, num_samples) ==
  { SeqSum([i \in 1 .. num_samples |-> nodes[pick[i] + 1]]) \div num_samples :
      pick \in [1 .. num_samples -> RandInt(0, Len(nodes))] }

RECURSIVE PadNodes(_, _, _, _)
\* The loop of lines 164-179 from iteration j on.
PadNodes(nodes, j, num_additional, num_samples) ==
  IF j >= num_additional THEN {nodes}
  ELSE UNION { PadNodes(Append(nodes, c), j + 1, num_additional, num_samples) :
                 c \in AveragedCenters(nodes, num_samples) }

\* The lists ReplenishNodes_ can leave in top_leaf_nodes.
ReplenishNodes_(group_size, nodes) ==
  UNION { PadNodes(nodes, 0, NumAdditional(group_size, Len(nodes)), num_samples) :
            num_samples \in NumSamples(Len(nodes)) }

----------------------------------------------------------------------------
(* IndexData, phases 4 and 5 : lines 568-578 *)

\* MidDistanceSq of a point to a leaf, in one dimension.
MidDistanceSq(center, pt) == (pt - center) * (pt - center)

\* Lines 330-343: the first leaf at the least squared mid-distance.
MinIndex(pt, nodes) ==
  CHOOSE j \in 0 .. Len(nodes) - 1 :
    /\ \A k \in 0 .. Len(nodes) - 1 :
         MidDistanceSq(nodes[j + 1], pt) <= MidDistanceSq(nodes[k + 1], pt)
    /\ \A k \in 0 .. j - 1 :
         MidDistanceSq(nodes[k + 1], pt) > MidDistanceSq(nodes[j + 1], pt)

\* GetLeafNodeMembershipCounts_ : lines 315-348.
GetLeafNodeMembershipCounts_(table, nodes) ==
  [j \in 1 .. Len(nodes) |->
     Cardinality({ i \in 1 .. Len(table.rows) : MinIndex(table.rows[i].pt, nodes) = j - 1 })]

\* Lines 563-572: the list is padded when it is shorter than the group, and
\* the points of the shard are counted per nearest leaf.
PadAndVote(p) ==
  /\ pc[p] = "replenish"
  /\ \E nodes \in (IF Len(top_leaf_nodes[p]) < comm_size
                    THEN ReplenishNodes_(table_outbox_group_comm_size_[p], top_leaf_nodes[p])
                    ELSE { top_leaf_nodes[p] }) :
       /\ top_leaf_nodes' = [top_leaf_nodes EXCEPT ![p] = nodes]
       /\ num_points_assigned_to_leaf_nodes' =
            [num_points_assigned_to_leaf_nodes EXCEPT ![p] =
               GetLeafNodeMembershipCounts_(owned_table_[p], nodes)]
  /\ pc' = [pc EXCEPT ![p] = "auction"]
  /\ NoClientCall
  /\ UNCHANGED <<comm_size, global_m_file_, heap, rendezvous, objVars, sampleVars, bcast_leaves,
                 leaf_node_assignment_index, leaves_taken, moveVars, netVars,
                 shard0>>

\* The fault of skipping the auction in a group of two, which C7 must detect.
RunsAuction_AboveTwo(group_size) == group_size > 2

\* Line 304: the auction is run only in a group of more than one process.
RunsAuction(group_size) == group_size > 1

\* DistributedAuction::Assign: the indices the solver can return, each leaf
\* going to at most one process.
Assign(p) ==
  { j \in 0 .. Len(num_points_assigned_to_leaf_nodes[p]) - 1 : j \notin leaves_taken }

\* TakeLeafNodeOwnerShip_ : lines 300-313.  The auction returns once every
\* process bids; the solver is done when the last process has its leaf.
TakeLeafNodeOwnerShip_(p) ==
  /\ pc[p] = "auction"
  /\ IF RunsAuction(comm_size)
     THEN /\ Arrived("auction")
          /\ \E j \in Assign(p) :
               /\ leaf_node_assignment_index' = [leaf_node_assignment_index EXCEPT ![p] = j]
               /\ leaves_taken' =
                    IF \A q \in Procs \ {p} : PcIdx(pc[q]) > PcIdx("auction")
                    THEN {} ELSE leaves_taken \cup {j}
     ELSE /\ leaf_node_assignment_index' = [leaf_node_assignment_index EXCEPT ![p] = 0]
          /\ UNCHANGED leaves_taken
  /\ pc' = [pc EXCEPT ![p] = "kmeans"]
  /\ NoClientCall
  /\ UNCHANGED <<comm_size, global_m_file_, heap, rendezvous, objVars, sampleVars, bcast_leaves,
                 top_leaf_nodes, num_points_assigned_to_leaf_nodes, moveVars,
                 netVars, shard0>>

----------------------------------------------------------------------------
(* ReadjustCentroids_ : lines 182-298 *)

\* Line 188.
NeighborRadius == comm_size
\* The fault of exchanging with the nearest left neighbour only, which C26
\* must detect.
LeftCount_Nearest(rank) == Min(rank, 1)

\* Lines 213-220: the number of left and right neighbours exchanged with.
LeftCount(rank) == Min(rank, NeighborRadius)
\* The fault of counting the process itself among its right neighbours,
\* which C8 must detect.
RightCount_WithSelf(rank) == Min(comm_size - rank, NeighborRadius)
RightCount(rank) == Min(comm_size - rank - 1, NeighborRadius)

\* The tags of lines 228, 237, 254 and 274.
LeftSendTag(i) == i
\* The fault of tagging a rightward send with the bare offset, which C20
\* must detect.
RightSendTag_Bare(i) == i
RightSendTag(i) == NeighborRadius + i
\* The fault of receiving from the left under the tag the left sends to
\* the left, which C5 must detect.
LeftRecvTag_SendTag(i) == i
LeftRecvTag(i) == NeighborRadius + i
RightRecvTag(i) == i

\* A row no one has written yet.
Unwritten == [pt |-> 0, id |-> NoId]

RECURSIVE AssignAll(_, _)
\* The per-point destination ranks the solver can fix for the processes of
\* todo, added to those of f.
AssignAll(f, todo) ==
  IF todo = {} THEN {f}
  ELSE LET q == CHOOSE x \in todo : TRUE
       IN UNION { AssignAll([f EXCEPT ![q] = a], todo \ {q}) :
                    a \in [1 .. Len(owned_table_[q].rows) -> Procs] }

\* DistributedLocalKMeans::Compute, entry (lines 195-199): the solver is
\* given the centroid of the leaf won.  The leaf list, the vote counts and
\* the leaf index are not read after this call.  The solver works on the
\* points of the whole group: it fixes the destination rank of every point
\* when the last process has entered, and the broadcast is over by then.
KMeansEnter(p) ==
  /\ pc[p] = "kmeans"
  /\ IF \A q \in Procs \ {p} : PcIdx(pc[q]) > PcIdx("kmeans")
     THEN /\ point_assignments' \in AssignAll(point_assignments, Procs)
          /\ bcast_leaves' = <<>>
     ELSE UNCHANGED <<point_assignments, bcast_leaves>>
  /\ top_leaf_nodes' = [top_leaf_nodes EXCEPT ![p] = <<>>]
  /\ num_points_assigned_to_leaf_nodes' =
       [num_points_assigned_to_leaf_nodes EXCEPT ![p] = <<>>]
  /\ leaf_node_assignment_index' = [leaf_node_assignment_index EXCEPT ![p] = -1]
  /\ pc' = [pc EXCEPT ![p] = "kmeans_wait"]
  /\ NoClientCall
  /\ UNCHANGED <<comm_size, global_m_file_, heap, rendezvous, objVars, sampleVars, leaves_taken,
                 total_num_points_owned, new_local_table, offset, loop_i,
                 netVars, shard0>>

\* The number of points of the whole group the solver gave to rank.
PointsAssignedTo(rank) ==
  SumOver([q \in Procs |->
             Cardinality({ k \in 1 .. Len(point_assignments[q]) :
                             point_assignments[q][k] = rank })], Procs)

\* Lines 195-206: Compute returns total_num_points_owned, and the new local
\* table is allocated with that many points.
KMeansReturn(p) ==
  /\ pc[p] = "kmeans_wait"
  /\ Arrived("kmeans_wait")
  /\ total_num_points_owned' = [total_num_points_owned EXCEPT ![p] = PointsAssignedTo(p)]
  /\ new_local_table' = [new_local_table EXCEPT ![p] =
       [k \in 1 .. PointsAssignedTo(p) |-> Unwritten]]
  /\ offset' = [offset EXCEPT ![p] = 0]
  /\ heap' = [heap EXCEPT ![p] = HeapNewLocalTable(@)]
  /\ pc' = [pc EXCEPT ![p] = "isend"]
  /\ NoClientCall
  /\ UNCHANGED <<comm_size, global_m_file_, rendezvous, objVars, sampleVars, leafVars,
                 point_assignments, loop_i, netVars, shard0>>

RECURSIVE Filter(_, _, _)
\* The positions k (1-based) of assignments, in order, assigned to filter_index.
Filter(assignments, filter_index, k) ==
  IF k > Len(assignments) THEN <<>>
  ELSE (IF assignments[k] = filter_index THEN <<k>> ELSE <<>>)
         \o Filter(assignments, filter_index, k + 1)

\* OffsetDenseMatrix::Init(rank, data, old_from_new, assignments, filter)
\* followed by its transfer: the points assigned to filter_index, each with
\* the entry of the old_from_new array handed to Init.
Fragment(rows, old_from_new, assignments, filter_index) ==
  LET sel == Filter(assignments, filter_index, 1)
  IN [n \in 1 .. Len(sel) |-> [pt |-> rows[sel[n]].pt, id |-> old_from_new[sel[n]]]]

\* owned_table_->old_from_new().
OldFromNew(table) == [k \in 1 .. Len(table.rows) |-> table.rows[k].id]

\* Lines 221-229: the fragments isent to the left neighbours.
LeftSends(p) ==
  { Msg(p, p - i, LeftSendTag(i),
        Fragment(owned_table_[p].rows, OldFromNew(owned_table_[p]),
                 point_assignments[p], p - i)) : i \in 1 .. LeftCount(p) }

\* Lines 230-239: the fragments isent to the right neighbours.
RightSends(p) ==
  { Msg(p, p + i, RightSendTag(i),
        Fragment(owned_table_[p].rows, OldFromNew(owned_table_[p]),
                 point_assignments[p], p + i)) : i \in 1 .. RightCount(p) }

\* Lines 208-239: all the isends are issued, none of them blocks.
Isends(p) ==
  /\ pc[p] = "isend"
  /\ msgs' = msgs \cup LeftSends(p) \cup RightSends(p)
  /\ p2p_ops' = [p2p_ops EXCEPT ![p] = @ + LeftCount(p) + RightCount(p)]
  /\ loop_i' = [loop_i EXCEPT ![p] = 1]
  /\ pc' = [pc EXCEPT ![p] = IF LeftCount(p) >= 1 THEN "recv_left" ELSE "self_copy"]
  /\ NoClientCall
  /\ UNCHANGED <<comm_size, global_m_file_, heap, rendezvous, objVars, sampleVars, leafVars,
                 point_assignments, total_num_points_owned, new_local_table,
                 offset, shard0>>

\* The fault of leaving the write pointers where they are, which C1 must
\* detect.
Advance_None(ptr, fragment) == ptr

\* Lines 258-259, 266-267 and 278-279: the two write pointers move past the
\* fragment just written.
Advance(ptr, fragment) == ptr + Len(fragment)

\* Lines 248-260: recv(rank - i, neighbor_radius + i, tmp_offset).
RecvLeft(p) ==
  /\ pc[p] = "recv_left"
  /\ \E m \in Matching(p, p - loop_i[p], LeftRecvTag(loop_i[p])) :
       /\ new_local_table' = [new_local_table EXCEPT ![p] = WriteAt(@, offset[p], m.rows)]
       /\ offset' = [offset EXCEPT ![p] = Advance(@, m.rows)]
       /\ msgs' = msgs \ {m}
  /\ p2p_ops' = [p2p_ops EXCEPT ![p] = @ + 1]
  /\ loop_i' = [loop_i EXCEPT ![p] = @ + 1]
  /\ pc' = [pc EXCEPT ![p] = IF loop_i[p] + 1 <= LeftCount(p) THEN "recv_left" ELSE "self_copy"]
  /\ NoClientCall
  /\ UNCHANGED <<comm_size, global_m_file_, heap, rendezvous, objVars, sampleVars, leafVars,
                 point_assignments, total_num_points_owned, shard0>>

\* What a read of an old_from_new entry no one has written can return:
\* zero-filled memory or junk.
GarbageIds == { <<0, 0>>, NoId }

\* Lines 261-267: the points the process keeps.  Init is handed
\* new_table_old_from_new_ptr, the not yet written part of the NEW table's
\* old_from_new array, as the array to take the identifiers from.
SelfCopy(p) ==
  /\ pc[p] = "self_copy"
  /\ \E new_table_old_from_new \in [1 .. Len(owned_table_[p].rows) -> GarbageIds] :
       LET tmp_offset == Fragment(owned_table_[p].rows, new_table_old_from_new,
                                  point_assignments[p], p)
       IN /\ new_local_table' = [new_local_table EXCEPT ![p] = WriteAt(@, offset[p], tmp_offset)]
          /\ offset' = [offset EXCEPT ![p] = Advance(@, tmp_offset)]
  /\ loop_i' = [loop_i EXCEPT ![p] = 1]
  /\ pc' = [pc EXCEPT ![p] = IF RightCount(p) >= 1 THEN "recv_right" ELSE "wait_all"]
  /\ NoClientCall
  /\ UNCHANGED <<comm_size, global_m_file_, heap, rendezvous, objVars, sampleVars, leafVars,
                 point_assignments, total_num_points_owned, netVars, shard0>>

\* Lines 268-280: recv(rank + i, i, tmp_offset).
RecvRight(p) ==
  /\ pc[p] = "recv_right"
  /\ \E m \in Matching(p, p + loop_i[p], RightRecvTag(loop_i[p])) :
       /\ new_local_table' = [new_local_table EXCEPT ![p] = WriteAt(@, offset[p], m.rows)]
       /\ offset' = [offset EXCEPT ![p] = Advance(@, m.rows)]
       /\ msgs' = msgs \ {m}
  /\ p2p_ops' = [p2p_ops EXCEPT ![p] = @ + 1]
  /\ loop_i' = [loop_i EXCEPT ![p] = @ + 1]
  /\ pc' = [pc EXCEPT ![p] = IF loop_i[p] + 1 <= RightCount(p) THEN "recv_right" ELSE "wait_all"]
  /\ NoClientCall
  /\ UNCHANGED <<comm_size, global_m_file_, heap, rendezvous, objVars, sampleVars, leafVars,
                 point_assignments, total_num_points_owned, shard0>>

\* Lines 282-286: wait_all on the left and the right send requests.
WaitAll(p) ==
  /\ pc[p] = "wait_all"
  /\ SendsComplete(p)
  /\ pc' = [pc EXCEPT ![p] = "barrier287"]
  /\ NoClientCall
  /\ UNCHANGED <<comm_size, global_m_file_, heap, rendezvous, objVars, sampleVars, leafVars,
                 moveVars, netVars, shard0>>

----------------------------------------------------------------------------
(* IndexData, phase 7 : lines 586-622 *)

\* The fault of allocating one point too many, which C4 must detect.
GlobalTableSize_OneMore == comm_size + 1

\* Line 604: the global table is given one point per process.
GlobalTableSize == comm_size

\* Lines 287-297, 587 and 599-604: past the barrier the old table is
\* destroyed and the new one owned and indexed; the global table is
\* allocated with one point per process.
SwapAndIndex(p) ==
  /\ pc[p] = "barrier287"
  /\ Arrived("barrier287")
  /\ owned_table_' = [owned_table_ EXCEPT ![p] = Table(SortRows(new_local_table[p]), TRUE)]
  /\ global_table_' = [global_table_ EXCEPT ![p] =
       Table([r \in 1 .. GlobalTableSize |-> Unwritten], FALSE)]
  /\ point_assignments' = [point_assignments EXCEPT ![p] = <<>>]
  /\ total_num_points_owned' = [total_num_points_owned EXCEPT ![p] = 0]
  /\ new_local_table' = [new_local_table EXCEPT ![p] = <<>>]
  /\ offset' = [offset EXCEPT ![p] = 0]
  /\ loop_i' = [loop_i EXCEPT ![p] = 0]
  /\ heap' = [heap EXCEPT ![p] = HeapSwap(@)]
  /\ pc' = [pc EXCEPT ![p] = "all_gather_centroid"]
  /\ NoClientCall
  /\ UNCHANGED <<comm_size, global_m_file_, rendezvous, local_n_entries_,
                 table_outbox_group_comm_size_, sampleVars, leafVars,
                 netVars, shard0>>

\* What all_gather of the root centroids delivers: column r holds the
\* centroid sent by rank r.
GatheredCentroids ==
  [r \in 1 .. comm_size |->
     [pt |-> Centroid(owned_table_[r - 1].rows), id |-> <<0, r - 1>>]]

\* Lines 605-609: all_gather of the centroids, then the summary is indexed.
AllGatherCentroid(p) ==
  /\ pc[p] = "all_gather_centroid"
  /\ Arrived("all_gather_centroid")
  /\ global_table_' = [global_table_ EXCEPT ![p] =
       Table(SortRows(WriteAt(@.rows, 0, GatheredCentroids)), TRUE)]
  /\ pc' = [pc EXCEPT ![p] = "all_gather_counts"]
  /\ NoClientCall
  /\ UNCHANGED <<comm_size, global_m_file_, heap, rendezvous, owned_table_, local_n_entries_,
                 table_outbox_group_comm_size_, sampleVars, leafVars, moveVars,
                 netVars, shard0>>

\* The fault of leaving out the closing all_gather, which C3 must detect.
RefreshedEntries_Stale(p) == local_n_entries_[p]

\* Lines 612-614: the directory after the closing all_gather.
RefreshedEntries(p) == GatheredEntries

\* Lines 611-622: all_gather of the new shard sizes; IndexData returns.
AllGatherCounts(p) ==
  /\ pc[p] = "all_gather_counts"
  /\ Arrived("all_gather_counts")
  /\ local_n_entries_' = [local_n_entries_ EXCEPT ![p] = RefreshedEntries(p)]
  /\ pc' = [pc EXCEPT ![p] = "done"]
  /\ NoClientCall
  /\ UNCHANGED <<comm_size, global_m_file_, heap, rendezvous, owned_table_, global_table_,
                 table_outbox_group_comm_size_, sampleVars, leafVars, moveVars,
                 netVars, shard0>>

----------------------------------------------------------------------------
(* local_n_entries : lines 439-447 *)

\* The fault of accepting the rank equal to the group size, which C10 must
\* detect.
RankRejected_Above(rank_in, group_size) == rank_in > group_size

\* Line 440.
RankRejected(rank_in, group_size) == rank_in >= group_size

\* What a read outside the directory can return.
GarbageCounts == { -1, 0 }

\* The outcomes of local_n_entries(rank_in) on process q: the value returned,
\* the directory position read (if any) and whether the diagnostic is printed.
local_n_entries(q, rank_in) ==
  IF RankRejected(rank_in, table_outbox_group_comm_size_[q])
  THEN { [ret |-> -1, read |-> <<>>, printed |-> TRUE, defined |-> TRUE] }
  ELSE IF rank_in + 1 \in DOMAIN local_n_entries_[q]
       THEN { [ret |-> local_n_entries_[q][rank_in + 1], read |-> <<rank_in>>,
               printed |-> FALSE, defined |-> TRUE] }
       ELSE { [ret |-> g, read |-> <<rank_in>>, printed |-> FALSE, defined |-> FALSE] :
                g \in GarbageCounts }

\* The ranks the accessor is called with.
RankInputs == -2 .. MaxP + 1

\* A process is between two calls of Init and IndexData, as all others are.
AtRest(q) ==
  /\ pc[q] \in { "ctor", "inited", "done" }
  /\ \A r \in Procs : pc[r] = pc[q]

\* The client calls local_n_entries(rank_in) on process q.
LocalNEntriesCall(q, rank_in) ==
  /\ AtRest(q)
  /\ \E r \in local_n_entries(q, rank_in) :
       obs' = [call |-> "local_n_entries", proc |-> q, rank_in |-> rank_in,
               ret |-> r.ret, read |-> r.read, printed |-> r.printed,
               point |-> 0, defined |-> r.defined]
  /\ UNCHANGED <<comm_size, global_m_file_, heap, rendezvous, pc, objVars, sampleVars, leafVars,
                 moveVars, netVars, shard0, cursorVars>>

----------------------------------------------------------------------------
(* IsIndexed : lines 488-490 *)

\* The outcomes of IsIndexed() on process q: global_table_->get_tree() != NULL.
\* When global_table_ is NULL the call goes through a null pointer, and
\* whatever it returns (if it returns) is not defined.
IsIndexed(q) ==
  IF global_table_[q].live
  THEN { [ret |-> global_table_[q].tree, defined |-> TRUE] }
  ELSE { [ret |-> b, defined |-> FALSE] : b \in BOOLEAN }

\* The client calls IsIndexed() on process q.
IsIndexedCall(q) ==
  /\ AtRest(q)
  /\ \E r \in IsIndexed(q) :
       obs' = [call |-> "IsIndexed", proc |-> q, rank_in |-> 0, ret |-> r.ret,
               read |-> <<>>, printed |-> FALSE, point |-> 0, defined |-> r.defined]
  /\ UNCHANGED <<comm_size, global_m_file_, heap, rendezvous, pc, objVars, sampleVars, leafVars,
                 moveVars, netVars, shard0, cursorVars>>

----------------------------------------------------------------------------
(* The system *)

Next ==
  \/ \E p \in Procs : InitLoad(p)
  \/ \E p \in Procs : InitAllGather(p)
  \/ \E p \in Procs : SelectAndGather(p)
  \/ \E p \in Procs : GatherRoot(p)
  \/ \E p \in Procs : RecvSample(p)
  \/ \E p \in Procs : SendSample(p)
  \/ \E p \in Procs : SendSampleReturn(p)
  \/ \E p \in Procs : Barrier544(p)
  \/ \E p \in Procs : BuildTopAndBroadcast(p)
  \/ \E p \in Procs : BroadcastRecv(p)
  \/ \E p \in Procs : PadAndVote(p)
  \/ \E p \in Procs : TakeLeafNodeOwnerShip_(p)
  \/ \E p \in Procs : KMeansEnter(p)
  \/ \E p \in Procs : KMeansReturn(p)
  \/ \E p \in Procs : Isends(p)
  \/ \E p \in Procs : RecvLeft(p)
  \/ \E p \in Procs : SelfCopy(p)
  \/ \E p \in Procs : RecvRight(p)
  \/ \E p \in Procs : WaitAll(p)
  \/ \E p \in Procs : SwapAndIndex(p)
  \/ \E p \in Procs : AllGatherCentroid(p)
  \/ \E p \in Procs : AllGatherCounts(p)
  \/ \E q \in Procs : \E rank_in \in RankInputs : LocalNEntriesCall(q, rank_in)
  \/ \E q \in Procs : IsIndexedCall(q)

Spec == Init /\ [][Next]_vars

----------------------------------------------------------------------------
(* ReplenishNodes_ on every candidate list, the empty one included *)

\* The leaf centers of the candidate lists handed to ReplenishNodes_.
CenterInputs == { 1, 2 }

\* The candidate lists of at most n leaves.
CandidateLists(n) == UNION { [1 .. len -> CenterInputs] : len \in 0 .. n }

\* What a read of a leaf outside the list can yield as its center.
GarbageCenters == { 0 }

\* A call of core::math::RandInt: what the value is drawn for ("size" at
\* line 160, "center" at line 169), the iteration j of the loop of line 164
\* it is made in (-1 before the loop), and the value.
Draw(what, j, value) == [for |-> what, leaf |-> j, value |-> value]

\* Lines 165-175 in iteration j: the averaged center with the draws made.
AveragedCentersTraced(nodes, num_samples, j) ==
  { [center |-> SeqSum([i \in 1 .. num_samples |-> nodes[pick[i] + 1]]) \div num_samples,
     draws |-> [i \in 1 .. num_samples |-> Draw("center", j, pick[i])]] :
      pick \in [1 .. num_samples -> RandInt(0, Len(nodes))] }

RECURSIVE PadNodesTraced(_, _, _, _, _)
\* The loop of lines 164-179 from iteration j on.
PadNodesTraced(nodes, j, num_additional, num_samples, draws) ==
  IF j >= num_additional THEN { [nodes |-> nodes, draws |-> draws] }
  ELSE UNION { PadNodesTraced(Append(nodes, a.center), j + 1, num_additional,
                              num_samples, draws \o a.draws) :
                 a \in AveragedCentersTraced(nodes, num_samples, j) }

\* Lines 158-179 on a list that is not empty: num_samples is drawn at line
\* 160, before the loop.
ReplenishTraced(group_size, nodes) ==
  UNION { PadNodesTraced(nodes, 0, NumAdditional(group_size, Len(nodes)), Max(1, r),
                         << Draw("size", -1, r) >>) :
            r \in RandInt(0, Len(nodes)) }

\* ReplenishNodes_ with the positions of top_leaf_nodes it reads.  Line 156
\* reads top_leaf_nodes[0] whatever the size of the list; the draws of line
\* 169 lie in [0, size), which is empty for the empty list, so that the first
\* center drawn is read outside the list too.  After such a read the call
\* may stop or go on with what it found.
ReplenishOutcomes(group_size, nodes) ==
  IF nodes # <<>>
  THEN { [nodes |-> run.nodes, read |-> <<0>>, defined |-> TRUE, draws |-> run.draws] :
           run \in ReplenishTraced(group_size, nodes) }
  ELSE { [nodes |-> padded, read |-> <<0>>, defined |-> FALSE, draws |-> <<>>] :
           padded \in { <<>> } \cup
             { [j \in 1 .. NumAdditional(group_size, 0) |-> g] : g \in GarbageCenters } }

\* Every process has passed the broadcast of line 561 with the same list.
PaddingInit ==
  /\ comm_size \in 1 .. MaxP
  /\ rendezvous = FALSE
  /\ global_m_file_ = FALSE
  /\ heap = [p \in Procs |-> HeapInit(NoHeap)]
  /\ pc = [p \in Procs |-> "replenish"]
  /\ owned_table_ = [p \in Procs |-> Table(Load(p, 1), FALSE)]
  /\ shard0 = [p \in Procs |-> Load(p, 1)]
  /\ local_n_entries_ = [p \in Procs |-> [r \in 1 .. comm_size |-> 1]]
  /\ global_table_ = [p \in Procs |-> NULL]
  /\ table_outbox_group_comm_size_ = [p \in Procs |-> comm_size]
  /\ sampled_indices = [p \in Procs |-> <<>>]
  /\ sampled_table = [p \in Procs |-> <<>>]
  /\ bcast_leaves \in CandidateLists(comm_size)
  /\ top_leaf_nodes = [p \in Procs |-> bcast_leaves]
  /\ num_points_assigned_to_leaf_nodes = [p \in Procs |-> <<>>]
  /\ leaf_node_assignment_index = [p \in Procs |-> -1]
  /\ leaves_taken = {}
  /\ point_assignments = [p \in Procs |-> <<>>]
  /\ total_num_points_owned = [p \in Procs |-> 0]
  /\ new_local_table = [p \in Procs |-> <<>>]
  /\ offset = [p \in Procs |-> 0]
  /\ loop_i = [p \in Procs |-> 0]
  /\ msgs = {}
  /\ p2p_ops = [p \in Procs |-> 0]
  /\ obs = NoObs
  /\ DefaultIterator

\* Lines 563-572 with the reads of ReplenishNodes_ recorded.
PadAndVoteTraced(p) ==
  /\ pc[p] = "replenish"
  /\ \E out \in (IF Len(top_leaf_nodes[p]) < comm_size
                  THEN ReplenishOutcomes(table_outbox_group_comm_size_[p], top_leaf_nodes[p])
                  ELSE { [nodes |-> top_leaf_nodes[p], read |-> <<>>, defined |-> TRUE,
                          draws |-> <<>>] }) :
       /\ top_leaf_nodes' = [top_leaf_nodes EXCEPT ![p] = out.nodes]
       /\ num_points_assigned_to_leaf_nodes' =
            [num_points_assigned_to_leaf_nodes EXCEPT ![p] =
               IF out.nodes = <<>> THEN <<>>
               ELSE GetLeafNodeMembershipCounts_(owned_table_[p], out.nodes)]
       /\ obs' = [call |-> IF out.read = <<>> THEN "none" ELSE "ReplenishNodes_",
                  proc |-> p, rank_in |-> Len(top_leaf_nodes[p]), ret |-> Len(out.nodes),
                  read |-> out.read, printed |-> FALSE, point |-> 0,
                  defined |-> out.defined, draws |-> out.draws]
  /\ pc' = [pc EXCEPT ![p] = "auction"]
  /\ UNCHANGED <<comm_size, global_m_file_, heap, rendezvous, objVars, sampleVars, bcast_leaves,
                 leaf_node_assignment_index, leaves_taken, moveVars, netVars,
                 shard0, cursorVars>>

PaddingNext == \E p \in Procs : PadAndVoteTraced(p)

PaddingSpec == PaddingInit /\ [][PaddingNext]_vars

----------------------------------------------------------------------------
(* TreeIterator : lines 44-138, and a client that drains it twice *)

\* get_node_iterator(begin, count), lines 77-82 and 628-630; an iterator
\* over a node (lines 70-75) is the one over (node->begin(), node->count()).
IteratorOver(begin, count) ==
  /\ begin_ = begin
  /\ end_ = begin + count
  /\ current_index_ = begin_ - 1

\* The stages at which a client holds the table: constructed, after Init,
\* after IndexData.
Stages == { "ctor", "inited", "done" }

\* The send, isend and recv calls process p issues in one IndexData.
CallsOfIndexData(p) == (IF p = 0 THEN comm_size - 1 ELSE 1) + 2 * (comm_size - 1)

\* Who holds whose point when IndexData has returned: process p the point
\* loaded by rank holds[p].
Holdings(stage) ==
  IF stage = "done"
  THEN { holds \in [Procs -> Procs] :
           \A p \in Procs : \A q \in Procs : holds[p] = holds[q] => p = q }
  ELSE { [p \in Procs |-> p] }

\* The P objects at a stage, every process having loaded one point and
\* holding one point after the migration.
TableHolding(stage, holds) ==
  /\ global_m_file_ = FALSE
  /\ heap = [p \in Procs |->
       CASE stage = "ctor" -> NoHeap
         [] stage = "inited" -> HeapInit(NoHeap)
         [] OTHER -> HeapSwap(HeapNewLocalTable(HeapInit(NoHeap)))]
  /\ pc = [p \in Procs |-> stage]
  /\ shard0 = [p \in Procs |-> IF stage = "ctor" THEN <<>> ELSE Load(p, 1)]
  /\ owned_table_ = [p \in Procs |->
       CASE stage = "ctor" -> NULL
         [] stage = "inited" -> Table(Load(p, 1), FALSE)
         [] OTHER -> Table(<<[pt |-> Load(holds[p], 1)[1].pt,
                               id |-> IF holds[p] = p THEN <<0, 0>>
                                      ELSE <<holds[p], 0>>]>>, TRUE)]
  /\ local_n_entries_ = [p \in Procs |->
       IF stage = "ctor" THEN NoDirectory ELSE [r \in 1 .. comm_size |-> 1]]
  /\ global_table_ = [p \in Procs |->
       IF stage = "done"
       THEN Table(SortRows([r \in 1 .. comm_size |->
                    [pt |-> Centroid(Load(holds[r - 1], 1)), id |-> <<0, r - 1>>]]), TRUE)
       ELSE NULL]
  /\ table_outbox_group_comm_size_ = [p \in Procs |->
       IF stage = "ctor" THEN -1 ELSE comm_size]
  /\ sampled_indices = [p \in Procs |-> <<>>]
  /\ sampled_table = [p \in Procs |-> <<>>]
  /\ bcast_leaves = <<>>
  /\ top_leaf_nodes = [p \in Procs |-> <<>>]
  /\ num_points_assigned_to_leaf_nodes = [p \in Procs |-> <<>>]
  /\ leaf_node_assignment_index = [p \in Procs |-> -1]
  /\ leaves_taken = {}
  /\ point_assignments = [p \in Procs |-> <<>>]
  /\ total_num_points_owned = [p \in Procs |-> 0]
  /\ new_local_table = [p \in Procs |-> <<>>]
  /\ offset = [p \in Procs |-> 0]
  /\ loop_i = [p \in Procs |-> 0]
  /\ msgs = {}
  /\ p2p_ops = [p \in Procs |-> IF stage = "done" THEN CallsOfIndexData(p) ELSE 0]
  /\ obs = NoObs

TableAtStage(stage) ==
  /\ comm_size \in 1 .. MaxP
  /\ \E holds \in Holdings(stage) : TableHolding(stage, holds)

\* An iterator of the table of process 0, taken at any stage.
CursorInit ==
  /\ \E stage \in Stages : TableAtStage(stage)
  /\ rendezvous = FALSE
  /\ \E begin \in 0 .. MaxBegin : \E count \in 0 .. MaxCount : IteratorOver(begin, count)
  /\ it_phase = "free"
  /\ it_visited = <<>>
  /\ it_first = <<>>

\* The fault of stopping one position late, which C9 must detect.
HasNext_Late == current_index_ < end_

\* Lines 88-90.
HasNext == current_index_ < end_ - 1

\* Lines 127-129.
count == end_ - begin_

\* Lines 92-94, called by the client whether HasNext() or not.
ItNext ==
  /\ it_phase \in { "free", "free_again" }
  /\ current_index_ < end_ - 1 + MaxOverrun
  /\ current_index_' = current_index_ + 1
  /\ UNCHANGED <<tableVars, begin_, end_, it_phase, it_visited, it_first>>

\* Lines 119-121.
ItReset ==
  /\ it_phase \in { "free", "free_again" }
  /\ current_index_' = begin_ - 1
  /\ UNCHANGED <<tableVars, begin_, end_, it_phase, it_visited, it_first>>

\* The client starts a drain: Reset(), then while (HasNext()) Next().
DrainStart ==
  /\ it_phase \in { "free", "free_again" }
  /\ current_index_' = begin_ - 1
  /\ it_visited' = <<>>
  /\ it_phase' = IF it_phase = "free" THEN "drain" ELSE "drain_again"
  /\ UNCHANGED <<tableVars, begin_, end_, it_first>>

\* One turn of the loop: HasNext() holds, Next() moves to a position.
DrainNext ==
  /\ it_phase \in { "drain", "drain_again" }
  /\ HasNext
  /\ current_index_' = current_index_ + 1
  /\ it_visited' = Append(it_visited, current_index_')
  /\ UNCHANGED <<tableVars, begin_, end_, it_phase, it_first>>

\* The loop ends: HasNext() is false.
DrainEnd ==
  /\ it_phase \in { "drain", "drain_again" }
  /\ ~HasNext
  /\ IF it_phase = "drain"
     THEN it_first' = it_visited /\ it_phase' = "free_again"
     ELSE it_phase' = "drained_twice" /\ UNCHANGED it_first
  /\ UNCHANGED <<tableVars, begin_, end_, current_index_, it_visited>>

\* What a read through a null pointer or outside a table can yield.
GarbagePoints == { 0 }

\* iterator_get_ : lines 668-676.  The point at reordered_position of the
\* GLOBAL table, read without a test of the pointer or of the position.
iterator_get_(q, reordered_position) ==
  IF global_table_[q].live /\ reordered_position + 1 \in DOMAIN global_table_[q].rows
  THEN { [point |-> global_table_[q].rows[reordered_position + 1].pt, defined |-> TRUE] }
  ELSE { [point |-> g, defined |-> FALSE] : g \in GarbagePoints }

\* IndexUtil<IndexType>::Extract(old_from_new, position): the index held at
\* the position of the array.
Extract(old_from_new, position) == old_from_new[position + 1][2]

\* iterator_get_id_ : lines 678-686.
iterator_get_id_(q, reordered_position) ==
  UNION { IF ~indexed.ret
          THEN { [id |-> reordered_position, defined |-> indexed.defined] }
          ELSE IF global_table_[q].live /\
                  reordered_position + 1 \in DOMAIN global_table_[q].rows
               THEN { [id |-> Extract(OldFromNew(global_table_[q]), reordered_position),
                       defined |-> indexed.defined] }
               ELSE { [id |-> g, defined |-> FALSE] : g \in GarbageCounts } :
          indexed \in IsIndexed(q) }

\* core::math::Random(lo, hi): an integer of [lo, hi).
Random(lo, hi) == lo .. hi - 1

\* The fault of drawing from [begin, end], which C16 must detect.
RandomPickPositions_Closed == Random(begin_, end_ + 1)

\* Lines 111 and 115: the position RandomPick draws.
RandomPickPositions == Random(begin_, end_)

\* The offsets get and get_id are called with.
Offsets == 0 .. MaxCount - 1

\* The client is between two drains.
Free == it_phase \in { "free", "free_again" }

\* Lines 88-90: HasNext() called for its value.
ItHasNext ==
  /\ Free
  /\ obs' = [call |-> "HasNext", proc |-> 0, rank_in |-> 0, ret |-> HasNext,
             read |-> <<>>, printed |-> FALSE, point |-> 0, defined |-> TRUE]
  /\ UNCHANGED <<protocolVars, cursorVars>>

\* Lines 127-137: count(), begin() and end().
ItInspect ==
  /\ Free
  /\ \E got \in { <<"count", count>>, <<"begin", begin_>>, <<"end", end_>> } :
       obs' = [call |-> got[1], proc |-> 0, rank_in |-> 0, ret |-> got[2],
               read |-> <<>>, printed |-> FALSE, point |-> 0, defined |-> TRUE]
  /\ UNCHANGED <<protocolVars, cursorVars>>

\* Lines 102-104: get(i, entry).
ItGet(i) ==
  /\ Free
  /\ \E got \in iterator_get_(0, begin_ + i) :
       obs' = [call |-> "get", proc |-> 0, rank_in |-> i, ret |-> 0,
               read |-> <<begin_ + i>>, printed |-> FALSE, point |-> got.point,
               defined |-> got.defined]
  /\ UNCHANGED <<protocolVars, cursorVars>>

\* Lines 106-108: get_id(i, point_id).
ItGetId(i) ==
  /\ Free
  /\ \E got \in iterator_get_id_(0, begin_ + i) :
       obs' = [call |-> "get_id", proc |-> 0, rank_in |-> i, ret |-> got.id,
               read |-> <<begin_ + i>>, printed |-> FALSE, point |-> 0,
               defined |-> got.defined]
  /\ UNCHANGED <<protocolVars, cursorVars>>

\* Lines 110-112: RandomPick(entry).
ItRandomPick ==
  /\ Free
  /\ \E position \in RandomPickPositions : \E got \in iterator_get_(0, position) :
       obs' = [call |-> "RandomPick", proc |-> 0, rank_in |-> 0, ret |-> 0,
               read |-> <<position>>, printed |-> FALSE, point |-> got.point,
               defined |-> got.defined]
  /\ UNCHANGED <<protocolVars, cursorVars>>

\* Lines 114-117: RandomPick(entry, point_id); the identifier handed back
\* is the position drawn.
ItRandomPickId ==
  /\ Free
  /\ \E position \in RandomPickPositions : \E got \in iterator_get_(0, position) :
       obs' = [call |-> "RandomPick_id", proc |-> 0, rank_in |-> 0, ret |-> position,
               read |-> <<position>>, printed |-> FALSE, point |-> got.point,
               defined |-> got.defined]
  /\ UNCHANGED <<protocolVars, cursorVars>>

\* Lines 96-100: Next(entry, point_id).
ItNextEntry ==
  /\ Free
  /\ current_index_ < end_ - 1 + MaxOverrun
  /\ current_index_' = current_index_ + 1
  /\ \E got \in iterator_get_(0, current_index_ + 1) :
       \E got_id \in iterator_get_id_(0, current_index_ + 1) :
         obs' = [call |-> "Next", proc |-> 0, rank_in |-> 0, ret |-> got_id.id,
                 read |-> <<current_index_ + 1>>, printed |-> FALSE,
                 point |-> got.point, defined |-> got.defined /\ got_id.defined]
  /\ UNCHANGED <<protocolVars, begin_, end_, it_phase, it_visited, it_first>>

CursorNext ==
  \/ ItNext \/ ItReset \/ DrainStart \/ DrainNext \/ DrainEnd
  \/ ItHasNext \/ ItInspect
  \/ \E i \in Offsets : ItGet(i)
  \/ \E i \in Offsets : ItGetId(i)
  \/ ItRandomPick \/ ItRandomPickId \/ ItNextEntry

CursorSpec == CursorInit /\ [][CursorNext]_vars

\* begin, begin + 1, ..., end - 1.
WholeRange == [k \in 1 .. count |-> begin_ + k - 1]

\* C9 (cursor idempotence): over a range with count() >= 1, from any state,
\* Reset() and a drain visit begin, ..., end - 1 in this order, count()
\* positions, and a second Reset() and drain visit the same sequence.
C9_CursorIdempotence ==
  count >= 1 =>
    /\ it_phase \in { "free_again", "drain_again", "drained_twice" } =>
         (it_first = WholeRange /\ Len(it_first) = count)
    /\ it_phase = "drained_twice" => it_visited = it_first

\* The calls of C16.
FrameCalls ==
  { "HasNext", "count", "begin", "end", "get", "get_id", "RandomPick", "RandomPick_id" }

IteratedTable == IF global_table_[0].live THEN global_table_[0] ELSE owned_table_[0]

\* C17: Next(point, id) advances current_index by exactly one and returns
\* the point at the new position with its original identifier, the position
\* itself when the table is not indexed and old_from_new[position] when it
\* is; get_id(i) returns that identifier for position begin + i.
C17_NextReturnsPointAndId ==
  [][(obs' # obs /\ obs'.call \in { "Next", "get_id" } /\
      obs'.read[1] + 1 \in DOMAIN IteratedTable.rows) =>
       LET position == obs'.read[1]
           row == IteratedTable.rows[position + 1]
       IN /\ obs'.defined
          /\ obs'.ret = IF IteratedTable.tree THEN row.id[2] ELSE position
          /\ obs'.call = "Next" =>
               (current_index_' = current_index_ + 1 /\ position = current_index_' /\
                obs'.point = row.pt)
          /\ obs'.call = "get_id" => position = begin_ + obs'.rank_in]_vars

\* Two drains of the largest range, not starting at position 0.
C9_Witness ==
  /\ it_phase = "drained_twice"
  /\ begin_ = MaxBegin
  /\ count = MaxCount
  /\ Len(it_visited) = MaxCount

\* The send protocol of the MPI build is either; a process that can take a
\* step of the protocol eventually takes one.
----------------------------------------------------------------------------
(* SelectSubset_ : lines 350-368, with the positions of the index array it *)
(* swaps recorded                                                          *)

\* The sample probabilities of (0, 1] SelectSubset_ is called with.
SampleProbabilities == { <<1, 4>>, <<1, 2>>, <<2, 3>>, <<1, 1>> }

RECURSIVE ShuffleTraced(_, _, _, _)
\* The loop of lines 360-363 from iteration i on: the index arrays it can
\* leave, each with the positions std::swap was applied to.
ShuffleTraced(indices, i, num_elements, swapped) ==
  IF i >= num_elements THEN { [indices |-> indices, read |-> swapped] }
  ELSE UNION { ShuffleTraced(Swap(indices, i, random_index), i + 1, num_elements,
                             swapped \o <<i, random_index>>) :
                 random_index \in RandInt(i, Len(indices)) }

\* Lines 353-367.
SelectSubsetTraced(prob, n) ==
  { [indices |-> SubSeq(run.indices, 1, NumElements(prob, n)), read |-> run.read] :
      run \in ShuffleTraced([k \in 1 .. n |-> k - 1], 0, NumElements(prob, n), <<>>) }

\* Every process has returned from Init with a shard of 1..MaxPoints points.
SamplingInit ==
  /\ comm_size \in 1 .. MaxP
  /\ rendezvous = FALSE
  /\ global_m_file_ = FALSE
  /\ heap = [p \in Procs |-> HeapInit(NoHeap)]
  /\ pc = [p \in Procs |-> "inited"]
  /\ \E sizes \in [Procs -> 1 .. MaxPoints] :
       /\ owned_table_ = [p \in Procs |-> Table(Load(p, sizes[p]), FALSE)]
       /\ shard0 = [p \in Procs |-> Load(p, sizes[p])]
       /\ local_n_entries_ = [p \in Procs |-> [r \in 1 .. comm_size |-> sizes[r - 1]]]
  /\ global_table_ = [p \in Procs |-> NULL]
  /\ table_outbox_group_comm_size_ = [p \in Procs |-> comm_size]
  /\ sampled_indices = [p \in Procs |-> <<>>]
  /\ sampled_table = [p \in Procs |-> <<>>]
  /\ bcast_leaves = <<>>
  /\ top_leaf_nodes = [p \in Procs |-> <<>>]
  /\ num_points_assigned_to_leaf_nodes = [p \in Procs |-> <<>>]
  /\ leaf_node_assignment_index = [p \in Procs |-> -1]
  /\ leaves_taken = {}
  /\ point_assignments = [p \in Procs |-> <<>>]
  /\ total_num_points_owned = [p \in Procs |-> 0]
  /\ new_local_table = [p \in Procs |-> <<>>]
  /\ offset = [p \in Procs |-> 0]
  /\ loop_i = [p \in Procs |-> 0]
  /\ msgs = {}
  /\ p2p_ops = [p \in Procs |-> 0]
  /\ obs = NoObs
  /\ DefaultIterator

\* Lines 499-503 with the swaps of SelectSubset_ recorded.
SelectTraced(p) ==
  /\ pc[p] = "inited"
  /\ \E prob \in SampleProbabilities :
       \E out \in SelectSubsetTraced(prob, Len(owned_table_[p].rows)) :
         /\ sampled_indices' = [sampled_indices EXCEPT ![p] = out.indices]
         /\ obs' = [call |-> "SelectSubset_", proc |-> p, rank_in |-> prob,
                    ret |-> Len(out.indices), read |-> out.read, printed |-> FALSE,
                    point |-> 0, defined |-> TRUE]
  /\ pc' = [pc EXCEPT ![p] = IF p = 0 THEN "gather" ELSE "send"]
  /\ UNCHANGED <<comm_size, global_m_file_, heap, rendezvous, objVars, sampled_table,
                 leafVars, moveVars, netVars, shard0, cursorVars>>

SamplingNext == \E p \in Procs : SelectTraced(p)

SamplingSpec == SamplingInit /\ [][SamplingNext]_vars

----------------------------------------------------------------------------
(* ~DistributedTable : lines 390-425 *)

\* The object of process p is destroyed between two calls, once every
\* process still alive has returned from the same call.
Destroy(p) ==
  /\ pc[p] \in Stages
  /\ \A q \in Procs : pc[q] \in { pc[p], "destroyed" }
  /\ heap' = [heap EXCEPT ![p] =
       HeapDestroy(@, << "local_n_entries_", "owned_table_", "global_table_" >>)]
  /\ local_n_entries_' = [local_n_entries_ EXCEPT ![p] = NoDirectory]
  /\ owned_table_' = [owned_table_ EXCEPT ![p] = NULL]
  /\ global_table_' = [global_table_ EXCEPT ![p] = NULL]
  /\ pc' = [pc EXCEPT ![p] = "destroyed"]
  /\ NoClientCall
  /\ UNCHANGED <<comm_size, global_m_file_, rendezvous, table_outbox_group_comm_size_,
                 sampleVars, leafVars, moveVars, netVars, shard0>>

AllocNext == Next \/ \E p \in Procs : Destroy(p)

\* Init, IndexData and the destructor, with and without the arena.
AllocSpec == Init /\ [][AllocNext]_vars

----------------------------------------------------------------------------
(* Successive calls of IndexData on the same object *)

\* The calls of IndexData a client makes on one DistributedTable, and the
\* size of the groups it does so in.
MaxCalls == 2
MaxRepeatP == 2

\* The calls of IndexData process p has returned from: each allocates a new
\* local table and a global table.
CallsMade(p) == (Len(heap[p].objects) - Len(HeapInit(NoHeap).objects)) \div 2

\* Every process has returned from IndexData and the client calls it again
\* on each of them: IndexData starts from the members as they are (lines
\* 492-503 assign none of them).
IndexDataAgain ==
  /\ \A p \in Procs : pc[p] = "done" /\ CallsMade(p) < MaxCalls
  /\ pc' = [p \in Procs |-> "inited"]
  /\ NoClientCall
  /\ UNCHANGED <<comm_size, global_m_file_, heap, rendezvous, objVars, sampleVars, leafVars,
                 moveVars, netVars, shard0>>

RepeatInit == Init /\ comm_size <= MaxRepeatP /\ ~global_m_file_

RepeatNext == Next \/ IndexDataAgain \/ \E p \in Procs : Destroy(p)

RepeatSpec == RepeatInit /\ [][RepeatNext]_vars

Protocol == \E p \in Procs :
  \/ InitLoad(p) \/ InitAllGather(p) \/ SelectAndGather(p) \/ GatherRoot(p)
  \/ RecvSample(p) \/ SendSample(p) \/ SendSampleReturn(p) \/ Barrier544(p)
  \/ BuildTopAndBroadcast(p) \/ BroadcastRecv(p) \/ PadAndVote(p)
  \/ TakeLeafNodeOwnerShip_(p) \/ KMeansEnter(p)
  \/ KMeansReturn(p) \/ Isends(p) \/ RecvLeft(p)
  \/ SelfCopy(p) \/ RecvRight(p) \/ WaitAll(p)
  \/ SwapAndIndex(p) \/ AllGatherCentroid(p) \/ AllGatherCounts(p)

LiveSpec == InitAnyProtocol /\ [][Next]_vars /\ WF_vars(Protocol)

----------------------------------------------------------------------------
(* Properties of the protocol *)

\* IndexData has returned on every process.
AllDone == \A p \in Procs : pc[p] = "done"

\* Process p has left ReadjustCentroids_ with its new shard.
Swapped(p) == PcIdx(pc[p]) > PcIdx("barrier287")

ShardSizeSum(tables) == SumOver([q \in Procs |-> Len(tables[q])], Procs)
OwnedRows == [q \in Procs |-> owned_table_[q].rows]

\* The places (process, position) of the current shards holding coordinate pt.
PlacesOf(pt) ==
  { <<q, k>> \in Procs \X (1 .. MaxPoints) :
      k <= Len(owned_table_[q].rows) /\ owned_table_[q].rows[k].pt = pt }

\* The identifier the point of coordinate pt was loaded with.
OriginalId(pt) ==
  LET at == CHOOSE qk \in Procs \X (1 .. MaxPoints) :
              qk[2] <= Len(shard0[qk[1]]) /\ shard0[qk[1]][qk[2]].pt = pt
  IN shard0[at[1]][at[2]].id

LoadedPoints == UNION { { shard0[q][k].pt : k \in 1 .. Len(shard0[q]) } : q \in Procs }

\* C1 (conservation): once IndexData has returned on all processes, the
\* shard sizes sum to what they summed to before the call, and every point
\* loaded is held exactly once: nothing is dropped or duplicated.
C1_Conservation ==
  AllDone =>
    /\ ShardSizeSum(OwnedRows) = ShardSizeSum(shard0)
    /\ \A pt \in LoadedPoints : Cardinality(PlacesOf(pt)) = 1

\* A run of C1 in which points really moved: some shard changed its size.
C1_Witness ==
  /\ AllDone
  /\ comm_size >= 2
  /\ \E p \in Procs : Len(owned_table_[p].rows) > Len(shard0[p])

\* C2 (provenance preservation): every point of a post-migration shard
\* carries the identifier it was loaded with, whether it was received from
\* another process or kept by the process itself.
C2_ProvenancePreserved ==
  \A p \in Procs :
    Swapped(p) =>
      \A k \in 1 .. Len(owned_table_[p].rows) :
        owned_table_[p].rows[k].id = OriginalId(owned_table_[p].rows[k].pt)

\* C3: once IndexData has returned on all processes, local_n_entries(r) is,
\* on every process q and for every rank r, the size of the shard of r.
C3_DirectoryMatchesShards ==
  AllDone =>
    \A q \in Procs : \A r \in Procs :
      \A out \in local_n_entries(q, r) : out.ret = Len(owned_table_[r].rows)

\* A run of C3 in which the migration changed what the directory must say.
C3_Witness ==
  /\ AllDone
  /\ \E r \in Procs : Len(owned_table_[r].rows) < Len(shard0[r])
  /\ \A q \in Procs : local_n_entries_[q][1] = Len(owned_table_[0].rows)

\* The root centroid of the local tree of process r.
RootCentroid(r) == Centroid(owned_table_[r].rows)

\* C4: after IndexData the global summary of every process has exactly P
\* points, the point contributed by rank r being the root centroid of the
\* rebalanced local tree of r, and it is the same table on every process.
C4_GlobalSummary ==
  AllDone =>
    \A q \in Procs :
      /\ global_table_[q].live
      /\ Len(global_table_[q].rows) = comm_size
      /\ \A r \in Procs :
           \E k \in 1 .. Len(global_table_[q].rows) :
             /\ global_table_[q].rows[k] = [pt |-> RootCentroid(r), id |-> <<0, r>>]
             /\ \A j \in 1 .. Len(global_table_[q].rows) :
                  global_table_[q].rows[j].id = <<0, r>> => j = k
      /\ global_table_[q] = global_table_[0]

\* A run of C4 with several processes whose centroids moved with the points.
C4_Witness ==
  /\ AllDone
  /\ comm_size >= 2
  /\ \E r \in Procs : RootCentroid(r) # Centroid(shard0[r])
  /\ Len(global_table_[0].rows) = comm_size

\* C5 (deadlock freedom): when all P processes call Init and IndexData,
\* every one of them eventually returns from IndexData.
C5_AllReturn == <>AllDone

\* A run of C5 under the rendezvous protocol in which a process has issued
\* its phase 6 sends and receives and all have returned.
C5_Witness ==
  /\ AllDone
  /\ rendezvous
  /\ comm_size >= 3
  /\ \A p \in Procs : p2p_ops[p] >= 2 * (comm_size - 1)

\* Process p has run lines 563-566 and not yet handed the list to Compute.
Replenished(p) == pc[p] \in { "auction", "kmeans" }

\* C6 (padding sufficiency): if the broadcast list has L leaves, 1 <= L < P,
\* then after ReplenishNodes_ the list of the process has exactly P leaves,
\* the first L of them being the broadcast ones.
C6_PaddingSufficiency ==
  \A p \in Procs :
    (Replenished(p) /\ Len(bcast_leaves) >= 1 /\ Len(bcast_leaves) < comm_size) =>
      /\ Len(top_leaf_nodes[p]) = comm_size
      /\ SubSeq(top_leaf_nodes[p], 1, Len(bcast_leaves)) = bcast_leaves

\* A process that was handed one leaf in a group of three and padded it.
C6_Witness ==
  \E p \in Procs :
    /\ pc[p] = "auction"
    /\ comm_size = 3
    /\ Len(bcast_leaves) = 1
    /\ Len(top_leaf_nodes[p]) = 3

\* Process p holds the leaf index TakeLeafNodeOwnerShip_ returned to it.
HoldsLeaf(p) == pc[p] = "kmeans"

\* C7 (auction validity): in a group of P >= 2 the leaf indices returned by
\* TakeLeafNodeOwnerShip_ are pairwise distinct, P of them once all have
\* returned, and each is an index into the candidate list.
C7_AuctionValidity ==
  comm_size >= 2 =>
    /\ \A p \in Procs : \A q \in Procs :
         (HoldsLeaf(p) /\ HoldsLeaf(q) /\ p # q) =>
           leaf_node_assignment_index[p] # leaf_node_assignment_index[q]
    /\ \A p \in Procs :
         HoldsLeaf(p) =>
           leaf_node_assignment_index[p] \in 0 .. Len(top_leaf_nodes[p]) - 1
    /\ (\A p \in Procs : HoldsLeaf(p)) =>
         Cardinality({ leaf_node_assignment_index[p] : p \in Procs }) = comm_size

\* All processes of a group of three hold their leaf, rank 0 not leaf 0.
C7_Witness ==
  /\ comm_size = 3
  /\ \A p \in Procs : HoldsLeaf(p)
  /\ leaf_node_assignment_index[0] = 2

\* C8 (single-process degeneracy): with P = 1 no send, isend or recv is ever
\* issued, the leaf assignment index is 0, and IndexData runs to its end.
C8_SingleProcess ==
  comm_size = 1 =>
    /\ p2p_ops[0] = 0
    /\ msgs = {}
    /\ HoldsLeaf(0) => leaf_node_assignment_index[0] = 0
    /\ pc[0] # "done" => ENABLED Protocol

\* The single process has returned from IndexData with more than one point.
C8_Witness ==
  /\ comm_size = 1
  /\ pc[0] = "done"
  /\ Len(owned_table_[0].rows) >= 2

\* C10: after Init, local_n_entries(rank) returns -1 and prints when rank is
\* at or above the recorded group size, returns directory[rank] for rank in
\* [0, P), and never reads the directory at a position >= P.
C10_LocalNEntries ==
  (obs.call = "local_n_entries" /\ pc[obs.proc] # "ctor") =>
    /\ obs.rank_in >= comm_size => (obs.ret = -1 /\ obs.printed /\ obs.read = <<>>)
    /\ obs.rank_in \in Procs =>
         (obs.ret = local_n_entries_[obs.proc][obs.rank_in + 1] /\ obs.read = <<obs.rank_in>>)
    /\ \A k \in 1 .. Len(obs.read) : obs.read[k] < comm_size

\* A call, after IndexData, with a rank above the group size.
C10_Witness ==
  /\ obs.call = "local_n_entries"
  /\ pc[obs.proc] = "done"
  /\ obs.rank_in = comm_size + 1
  /\ obs.ret = -1

\* C11: IsIndexed() is well defined in every state of a DistributedTable; it
\* returns false after construction and after Init, before IndexData, and
\* true once IndexData has completed.
C11_IsIndexedWellDefined ==
  obs.call = "IsIndexed" =>
    /\ obs.defined
    /\ pc[obs.proc] \in { "ctor", "inited" } => obs.ret = FALSE
    /\ pc[obs.proc] = "done" => obs.ret = TRUE

\* The phases of section 4.2 by position.  PhaseStarted(s): the last phase
\* of which a process at s has run a statement (rank 0 held in the gather,
\* and a rank held at the barrier or in the broadcast, has not started the
\* next one).  PhaseCompleted(s): the last phase a process at s has run to
\* its end, a process held at the barrier closing a phase having completed
\* it.  Padding (phase 3) and voting (phase 4) are lines 563-572.
PhaseStarted(s) ==
  CASE s \in { "ctor", "Init_all_gather", "inited" } -> 0
    [] s = "gather" -> 1
    [] s \in { "send", "send_block", "recv", "barrier544", "build_top", "broadcast" } -> 2
    [] s = "replenish" -> 3
    [] s = "auction" -> 4
    [] s = "kmeans" -> 5
    [] s \in { "kmeans_wait", "isend", "recv_left", "self_copy", "recv_right",
               "wait_all", "barrier287" } -> 6
    [] OTHER -> 7

PhaseCompleted(s) ==
  CASE s \in { "ctor", "Init_all_gather", "inited" } -> 0
    [] s \in { "gather", "send", "send_block", "recv" } -> 1
    [] s \in { "barrier544", "build_top", "broadcast", "replenish" } -> 2
    [] s = "auction" -> 4
    [] s \in { "kmeans", "kmeans_wait", "isend", "recv_left", "self_copy",
               "recv_right", "wait_all" } -> 5
    [] s \in { "barrier287", "all_gather_centroid", "all_gather_counts" } -> 6
    [] OTHER -> 7

\* Process q has entered IndexData and drawn its sample.
InsideIndexData(q) == PhaseCompleted(pc[q]) >= 1

\* C12 as stated (phase synchronisation): in no state has one process inside
\* IndexData run a statement of phase k + 1 while another process inside
\* IndexData has not completed phase k.
C12_PhaseSynchronisation ==
  \A p \in Procs : \A q \in Procs :
    (InsideIndexData(p) /\ InsideIndexData(q)) =>
      PhaseStarted(pc[p]) <= PhaseCompleted(pc[q]) + 1

\* The barriers and all_gathers of IndexData, which hold every process.
FullCollectives == { "barrier544", "barrier287", "all_gather_centroid", "all_gather_counts" }

\* C12 as amended: no process is past a barrier or an all_gather of
\* IndexData while another has not reached it; rank 0 is past the gather of
\* the sample sizes only when every rank has contributed, and another rank
\* is past the broadcast only when rank 0 has built and sent the leaves.
C12_CollectivesSynchronise ==
  \A p \in Procs : \A q \in Procs :
    /\ \A b \in FullCollectives :
         PcIdx(pc[p]) > PcIdx(b) => PcIdx(pc[q]) >= PcIdx(b)
    /\ (p = 0 /\ PcIdx(pc[p]) > PcIdx("gather")) => PcIdx(pc[q]) > PcIdx("inited")
    /\ (p # 0 /\ PcIdx(pc[p]) > PcIdx("broadcast")) => PcIdx(pc[0]) > PcIdx("build_top")

\* A process has padded and voted while another still waits for the
\* broadcast, and a third has passed the barrier of phase 2 with them.
C12_Witness ==
  /\ comm_size = 3
  /\ pc[0] = "auction"
  /\ pc[1] = "broadcast"
  /\ pc[2] = "replenish"

\* C13 as stated: a process that has passed the barrier closing migration
\* and swapped in its new shard has, for every rank, a directory entry equal
\* to the size of the shard that rank holds.
C13_NoStaleDirectory ==
  \A p \in Procs :
    Swapped(p) =>
      \A r \in Procs : local_n_entries_[p][r + 1] = Len(owned_table_[r].rows)

\* C13 as amended: a process that has returned from IndexData has, for every
\* rank, a directory entry equal to the size of the shard of that rank; from
\* the swap to the closing all_gather its directory still holds the sizes
\* the shards had before the migration.
C13_DirectoryRefreshedAtReturn ==
  \A p \in Procs :
    /\ pc[p] = "done" =>
         \A r \in Procs : local_n_entries_[p][r + 1] = Len(owned_table_[r].rows)
    /\ (Swapped(p) /\ pc[p] # "done") =>
         \A r \in Procs : local_n_entries_[p][r + 1] = Len(shard0[r])

\* One process has returned while another, whose shard changed its size,
\* is still to leave the closing all_gather.
C13_Witness ==
  \E p \in Procs : \E q \in Procs :
    /\ pc[q] = "done"
    /\ pc[p] = "all_gather_counts"
    /\ Len(owned_table_[p].rows) # Len(shard0[p])
    /\ local_n_entries_[q][p + 1] = Len(owned_table_[p].rows)

\* The messages of process p not yet received.
InFlightFrom(p) == { m \in msgs : m.src = p }

\* Process p has issued its isends and still owns its old shard.
Exchanging(p) ==
  pc[p] \in { "recv_left", "self_copy", "recv_right", "wait_all", "barrier287" }

\* The fragment of the old shard of p that goes to rank dst.
FragmentFor(p, dst) ==
  Fragment(owned_table_[p].rows, OldFromNew(owned_table_[p]), point_assignments[p], dst)

\* C15 (send-buffer lifetime): from its isends to its swap, every fragment
\* of a process still in flight is the fragment its old shard gives, the
\* process is past wait_all only when its sends have completed, and a step
\* changes the old shard or the assignment the fragments refer to only if it
\* is the step past the closing barrier, with no send of the process pending.
C15_SendBufferLifetime ==
  [][\A p \in Procs :
       Exchanging(p) =>
         /\ \A m \in InFlightFrom(p) : m.rows = FragmentFor(p, m.dst)
         /\ (rendezvous /\ pc[p] = "barrier287") => InFlightFrom(p) = {}
         /\ (owned_table_'[p] # owned_table_[p] \/
               point_assignments'[p] # point_assignments[p]) =>
              /\ pc[p] = "barrier287"
              /\ pc'[p] = "all_gather_centroid"
              /\ \A q \in Procs : PcIdx(pc[q]) >= PcIdx("barrier287")
              /\ rendezvous => InFlightFrom(p) = {}]_vars

\* Under the rendezvous protocol a process is held in wait_all by a
\* fragment with points in it that its neighbour has not received yet.
C15_Witness ==
  /\ rendezvous
  /\ \E p \in Procs :
       /\ pc[p] = "wait_all"
       /\ \E m \in InFlightFrom(p) : Len(m.rows) >= 1

\* C18 (allocator symmetry): with global_m_file_ fixed, every shard,
\* directory and global table is released through the facility that
\* allocated it, across Init, IndexData and the destructor, and none is
\* released twice.
C18_AllocatorSymmetry ==
  \A p \in Procs : \A k \in DOMAIN heap[p].objects :
    LET object == heap[p].objects[k]
    IN /\ Len(object.released) <= 1
       /\ \A j \in DOMAIN object.released : object.released[j] = object.by

\* With the arena in use, every process has been destroyed after IndexData:
\* both shards, the directory and the global table are released.
C18_Witness ==
  /\ global_m_file_
  /\ comm_size = MaxP
  /\ \A p \in Procs :
       /\ pc[p] = "destroyed"
       /\ Len(heap[p].objects) = 4
       /\ \A k \in 1 .. 4 : heap[p].objects[k].released = << "arena" >>

\* The rank whose file a row was loaded from.
SourceRank(row) == (row.pt - 1) \div MaxPoints

\* Process p has received every fragment of its new shard.
Exchanged(p) == pc[p] \in { "wait_all", "barrier287" }

\* C19 as stated: the new shard holds the fragments in ascending order of
\* source rank.
C19_AscendingSourceRank ==
  \A p \in Procs :
    Exchanged(p) =>
      \A k \in 1 .. Len(new_local_table[p]) - 1 :
        SourceRank(new_local_table[p][k]) <= SourceRank(new_local_table[p][k + 1])

\* The place of source rank s in the order process p fills its new shard:
\* lines 248-260 take rank p - 1 down to 0, lines 261-267 the own points,
\* lines 268-280 rank p + 1 up to P - 1.
NeighbourOrder(p, s) == IF s < p THEN p - 1 - s ELSE s

\* The number of sources process p has finished with.
SourcesDone(p) ==
  CASE pc[p] = "recv_left" -> loop_i[p] - 1
    [] pc[p] = "self_copy" -> p
    [] pc[p] = "recv_right" -> p + loop_i[p]
    [] OTHER -> comm_size

\* C19 as amended: each process takes its left neighbours nearest first
\* (rank - 1 down to 0), then its own points, then its right neighbours
\* nearest first (rank + 1 up to P - 1), each fragment written at the running
\* offset: the rows before the offset are written, come from the sources
\* finished with and lie in that order, the rows from the offset on are
\* unwritten, and the shard is full when the last receive has returned.
C19_NearestLeftFirst ==
  \A p \in Procs :
    Exchanging(p) =>
      LET shard == new_local_table[p]
      IN /\ offset[p] <= Len(shard)
         /\ \A k \in 1 .. Len(shard) : (k <= offset[p]) <=> (shard[k] # Unwritten)
         /\ \A k \in 1 .. offset[p] :
              NeighbourOrder(p, SourceRank(shard[k])) < SourcesDone(p)
         /\ \A k \in 1 .. offset[p] - 1 :
              NeighbourOrder(p, SourceRank(shard[k])) <=
                NeighbourOrder(p, SourceRank(shard[k + 1]))
         /\ Exchanged(p) => offset[p] = Len(shard)

\* Rank 2 of three has received the point of rank 1 and then the point of
\* rank 0.
C19_Witness ==
  /\ comm_size = 3
  /\ pc[2] = "wait_all"
  /\ Len(new_local_table[2]) >= 2
  /\ SourceRank(new_local_table[2][1]) = 1
  /\ SourceRank(new_local_table[2][2]) = 0

\* The tag rank s puts on its isend to rank r (lines 226-228, 235-238).
SendTag(s, r) == IF r < s THEN LeftSendTag(s - r) ELSE RightSendTag(r - s)

\* The tag rank r names in its recv from rank s (lines 253-254, 273-274).
ExpectedTag(r, s) == IF s < r THEN LeftRecvTag(r - s) ELSE RightRecvTag(s - r)

\* The receives rank r posts in ReadjustCentroids_, in the order it posts
\* them.
Receives(r) ==
  [i \in 1 .. LeftCount(r) + RightCount(r) |->
     IF i <= LeftCount(r)
     THEN [src |-> r - i, tag |-> LeftRecvTag(i)]
     ELSE [src |-> r + (i - LeftCount(r)), tag |-> RightRecvTag(i - LeftCount(r))]]

\* The number of those receives that have returned.
ReceivesDone(r) ==
  CASE PcIdx(pc[r]) <= PcIdx("isend") -> 0
    [] pc[r] = "recv_left" -> loop_i[r] - 1
    [] pc[r] = "self_copy" -> LeftCount(r)
    [] pc[r] = "recv_right" -> LeftCount(r) + loop_i[r] - 1
    [] OTHER -> LeftCount(r) + RightCount(r)

\* The fragments of ReadjustCentroids_ in flight.
FragmentsInFlight == { m \in msgs : PcIdx(pc[m.src]) > PcIdx("isend") }

\* C20 (phase-6 tag matching): for every ordered pair of distinct ranks
\* (s, r) the tag of the isend of s to r is the tag r names in its recv from
\* s, the tags of leftward and of rightward sends are disjoint, and under
\* every interleaving a fragment in flight is matched by exactly one receive
\* of its destination, one that has not returned yet and that matches no
\* other message; none is left when IndexData has returned.
C20_TagMatching ==
  /\ \A s \in Procs : \A r \in Procs \ {s} : SendTag(s, r) = ExpectedTag(r, s)
  /\ { LeftSendTag(i) : i \in 1 .. comm_size - 1 } \cap
       { RightSendTag(i) : i \in 1 .. comm_size - 1 } = {}
  /\ \A m \in FragmentsInFlight :
       LET intended == { i \in DOMAIN Receives(m.dst) :
                          Receives(m.dst)[i].src = m.src /\ Receives(m.dst)[i].tag = m.tag }
       IN /\ Cardinality(intended) = 1
          /\ \A i \in intended :
               /\ i > ReceivesDone(m.dst)
               /\ Matching(m.dst, Receives(m.dst)[i].src, Receives(m.dst)[i].tag) = {m}
          /\ m.rows = FragmentFor(m.src, m.dst)
  /\ AllDone => msgs = {}

\* Rank 2 of three has received both its fragments while a rightward
\* fragment from rank 0 and a leftward fragment from rank 2 are in flight to
\* rank 1.
C20_Witness ==
  /\ comm_size = 3
  /\ pc[2] = "wait_all"
  /\ \E m \in FragmentsInFlight : m.src = 0 /\ m.dst = 1 /\ m.tag = RightSendTag(1)
  /\ \E m \in FragmentsInFlight : m.src = 2 /\ m.dst = 1 /\ m.tag = LeftSendTag(1)

\* C21: SelectSubset_ on a shard of n >= 1 points with sample probability
\* num/den of (0, 1] returns exactly max(floor(num * n / den), 1) indices,
\* pairwise distinct and all in [0, n), and every swap of the partial
\* shuffle stays inside the index array.
C21_SelectSubset ==
  obs.call = "SelectSubset_" =>
    LET n == Len(owned_table_[obs.proc].rows)
        sample == sampled_indices[obs.proc]
        num == obs.rank_in[1]
        den == obs.rank_in[2]
        floor == CHOOSE k \in 0 .. n : k * den <= num * n /\ num * n < (k + 1) * den
    IN /\ Len(sample) = IF floor >= 1 THEN floor ELSE 1
       /\ \A j \in DOMAIN sample : sample[j] >= 0 /\ sample[j] < n
       /\ \A j \in DOMAIN sample : \A k \in DOMAIN sample : sample[j] = sample[k] => j = k
       /\ \A j \in DOMAIN obs.read : obs.read[j] >= 0 /\ obs.read[j] < n

\* Two of three points are drawn at probability 2/3, the first swap taking
\* the last position of the index array.
C21_Witness ==
  /\ obs.call = "SelectSubset_"
  /\ obs.rank_in = <<2, 3>>
  /\ Len(owned_table_[obs.proc].rows) = MaxPoints
  /\ Len(sampled_indices[obs.proc]) = 2
  /\ obs.read[2] = MaxPoints - 1

\* Where the sample of rank r starts in the sampled table of rank 0.
BlockStart(r) == SumOver([q \in Procs |-> Len(sampled_indices[q])], 0 .. r - 1)

\* C22 (sample aggregation): after phase 2, every process being at the
\* barrier of line 544, the sampled table on rank 0 holds
\* exactly the sum of all processes' sample counts, the sample of rank r
\* occupying, in the order it was drawn, the block that starts at the sum of
\* the counts of ranks 0..r-1 and has length counts[r]; no block overlaps
\* another or runs past the buffer.
C22_SampleAggregation ==
  (\A q \in Procs : pc[q] = "barrier544") =>
    /\ Len(sampled_table[0]) = SumOver([q \in Procs |-> Len(sampled_indices[q])], Procs)
    /\ \A r \in Procs :
         /\ BlockStart(r) + Len(sampled_indices[r]) <= Len(sampled_table[0])
         /\ \A k \in 1 .. Len(sampled_indices[r]) :
              sampled_table[0][BlockStart(r) + k].pt =
                owned_table_[r].rows[sampled_indices[r][k] + 1].pt
    /\ \A j \in DOMAIN sampled_table[0] : \A k \in DOMAIN sampled_table[0] :
         sampled_table[0][j].pt = sampled_table[0][k].pt => j = k

\* Rank 0 has collected its own sample of one point and a sample of two
\* points from rank 1.
C22_Witness ==
  /\ comm_size = 2
  /\ \A q \in Procs : pc[q] = "barrier544"
  /\ Len(sampled_indices[0]) = 1
  /\ Len(sampled_indices[1]) = 2
  /\ Len(sampled_table[0]) = 3

\* The synthetic leaves the call observed has added, as iterations of the
\* loop of line 164.
SyntheticLeaves == 0 .. obs.ret - obs.rank_in - 1

\* C23: leaf-set padding draws a fresh random sample size s = max(1,
\* random(L)) for each synthetic leaf, and the centroid of each synthetic
\* leaf is the average of the centroids of s randomly chosen leaves: there
\* are as many draws of a sample size as synthetic leaves, the j-th of them
\* giving the number of centroids drawn for the j-th leaf.
C23_FreshSampleSize ==
  (obs.call = "ReplenishNodes_" /\ obs.defined) =>
    LET IsSize(d) == d.for = "size"
        sizes == SelectSeq(obs.draws, IsSize)
    IN /\ Len(sizes) = Cardinality(SyntheticLeaves)
       /\ \A j \in SyntheticLeaves :
            j + 1 \in DOMAIN sizes =>
              Cardinality({ c \in DOMAIN obs.draws :
                              obs.draws[c].for = "center" /\ obs.draws[c].leaf = j }) =
                Max(1, sizes[j + 1].value)

\* C24: when the processes enter affinity voting and the auction they all
\* hold the same candidate-leaf list, of the same length and with the same
\* centroid at every index, the synthetic leaves of the padding included.
C24_SameCandidateList ==
  \A p \in Procs : \A q \in Procs :
    (pc[p] = "auction" /\ pc[q] = "auction") => top_leaf_nodes[p] = top_leaf_nodes[q]

\* A message of phase 2: the coordinates of at least one sampled point,
\* without identifiers (lines 538-542); a fragment of phase 6 carries the
\* identifiers of its points and may be empty.
IsSample(m) == m.rows # <<>> /\ \A k \in DOMAIN m.rows : m.rows[k].id = NoId

\* C25: a phase-2 sample message (rank r to rank 0, tag r, received with
\* any_tag) is never consumed by a phase-6 receive, and a phase-6 fragment
\* (rank r to rank 0, tag r as well) is never consumed by a phase-2 receive,
\* under any interleaving: no sample is in flight to a process that has left
\* the receive loop of phase 2, no fragment is in flight to a process that
\* has not, and a step consumes a sample only in that loop and a fragment
\* only in the receive loops of ReadjustCentroids_.
C25_PhasesDoNotAlias ==
  [][/\ \A m \in msgs :
          IF IsSample(m)
          THEN m.dst = 0 /\ m.tag = m.src /\ PcIdx(pc[0]) <= PcIdx("recv")
          ELSE PcIdx(pc[m.dst]) > PcIdx("barrier544")
     /\ \A m \in msgs \ msgs' :
          IF IsSample(m)
          THEN pc[m.dst] = "recv"
          ELSE pc[m.dst] \in { "recv_left", "recv_right" }]_vars

\* Rank 0 of three has received in phase 6 the fragment rank 2 sent it
\* with tag 2, the tag of the sample of rank 2.
C25_Witness ==
  /\ comm_size = 3
  /\ pc[0] = "wait_all"
  /\ \E k \in DOMAIN new_local_table[0] : SourceRank(new_local_table[0][k]) = 2
  /\ LeftSendTag(2) = 2

\* The places of the rows of a sequence of fragments that hold point pt.
Occurrences(fragments, pt) ==
  { <<f, k>> \in UNION { {f} \X DOMAIN f.rows : f \in fragments } : f.rows[k].pt = pt }

\* C26: in phase 6, the destination of every point lying in [0, P), every
\* local point of a process is placed in exactly one place, the outgoing
\* fragment for its destination rank if that is another rank and the
\* self-copy otherwise; each process issues exactly one send to and one
\* receive from every other rank; and the number of points written into its
\* new shard is the size the shard was allocated with.
C26_EveryPointPlacedOnce ==
  [][\A p \in Procs :
       LET sent == { m \in msgs' \ msgs : m.src = p }
           shard == owned_table_[p].rows
           written == { k \in DOMAIN new_local_table[p] : new_local_table[p][k] # Unwritten }
       IN /\ (pc[p] = "isend" /\ pc'[p] # "isend") =>
               /\ \A q \in Procs \ {p} : Cardinality({ m \in sent : m.dst = q }) = 1
               /\ \A m \in sent : m.dst \in Procs \ {p}
               /\ \A k \in DOMAIN shard :
                    /\ point_assignments[p][k] \in Procs
                    /\ IF point_assignments[p][k] = p
                       THEN Occurrences(sent, shard[k].pt) = {}
                       ELSE /\ Cardinality(Occurrences(sent, shard[k].pt)) = 1
                            /\ \A o \in Occurrences(sent, shard[k].pt) :
                                 o[1].dst = point_assignments[p][k]
          /\ (pc[p] = "self_copy" /\ pc'[p] # "self_copy") =>
               LET copied == SubSeq(new_local_table'[p], offset[p] + 1, offset'[p])
               IN \A k \in DOMAIN shard :
                    Cardinality({ j \in DOMAIN copied : copied[j].pt = shard[k].pt }) =
                      IF point_assignments[p][k] = p THEN 1 ELSE 0
          /\ Exchanged(p) =>
               /\ p2p_ops[p] = CallsOfIndexData(p)
               /\ \A m \in msgs : m.dst # p
               /\ Cardinality(written) = total_num_points_owned[p]
               /\ Len(new_local_table[p]) = total_num_points_owned[p]]_vars

\* Rank 1 of three keeps its point and has received the points of both its
\* neighbours.
C26_Witness ==
  /\ comm_size = 3
  /\ pc[1] = "wait_all"
  /\ total_num_points_owned[1] = 3
  /\ point_assignments[1] = <<1>>
  /\ \A k \in 1 .. 3 : new_local_table[1][k] # Unwritten

\* The global summary tables process p has allocated and not released.
LiveSummaries(p) ==
  { k \in DOMAIN heap[p].objects :
      heap[p].objects[k].what = "global_table_" /\ heap[p].objects[k].released = <<>> }

\* C27: across successive calls of IndexData on the same DistributedTable
\* each process has at most one live global summary table, the summary of
\* the previous call being released before or when the new one is
\* installed, and the destructor releases the last one.
C27_OneLiveSummary ==
  \A p \in Procs :
    /\ Cardinality(LiveSummaries(p)) <= 1
    /\ pc[p] = "destroyed" => LiveSummaries(p) = {}

\* C28: the identifier returned by RandomPick(point, id) is the original
\* identifier of the returned point, the value get_id and Next(point, id)
\* report for that storage position, both when the table is indexed and
\* when it is not.
C28_RandomPickId ==
  (obs.call = "RandomPick_id" /\ global_table_[0].live /\
   obs.read[1] + 1 \in DOMAIN global_table_[0].rows) =>
    LET position == obs.read[1]
    IN obs.ret = IF global_table_[0].tree
                 THEN global_table_[0].rows[position + 1].id[2]
                 ELSE position

\* C29: for a TreeIterator over (begin, count) with count >= 0, after any
\* sequence of Next(), Next(point, id) and Reset(), Next called while
\* HasNext() is false included, current_index stays within [begin - 1,
\* end - 1] and no position outside [begin, end) is read.
C29_CursorStaysInRange ==
  /\ current_index_ >= begin_ - 1
  /\ current_index_ <= end_ - 1
  /\ obs.call = "Next" => (obs.read[1] >= begin_ /\ obs.read[1] < end_)

\* C30: local_n_entries(rank) never reads outside the directory, whatever
\* the argument: a negative rank is rejected with -1 like a rank >= P, and
\* before Init (recorded group size -1, no directory) every call returns -1
\* without reading the directory.
C30_NoReadOutsideDirectory ==
  obs.call = "local_n_entries" =>
    /\ obs.defined
    /\ \A k \in DOMAIN obs.read : obs.read[k] + 1 \in DOMAIN local_n_entries_[obs.proc]
    /\ (obs.rank_in < 0 \/ obs.rank_in >= comm_size) => (obs.ret = -1 /\ obs.read = <<>>)
    /\ pc[obs.proc] = "ctor" => (obs.ret = -1 /\ obs.read = <<>>)

====
